---------------------------- MODULE Spec2Model ----------------------------
(* A model of website-log-insights' ingestion-and-aggregation engine:      *)
(* parser.ts (line parser, timestamp normalizer, bot classifier),          *)
(* database.ts (SQLite store: hosts, log_entries, file_metadata) and       *)
(* analyzer.ts (loadLogFile, analyze, getAllHosts, clearData),             *)
(* and of whois.ts (the cache of IP-organization lookups).                 *)
(*                                                                         *)
(* Text the code inspects character by character (hostnames, user agents,  *)
(* numeric tokens) is a sequence of one-character strings; text the code   *)
(* only compares or stores whole is a TLA+ string.                         *)
(* An instant (a JavaScript Date / epoch milliseconds) is a record         *)
(* [day, ms]: whole days since 1970-01-01 UTC and the millisecond of that  *)
(* day, so that epoch milliseconds stay exact within TLC's integers.       *)
EXTENDS Integers, Sequences, FiniteSets, TLC

VARIABLES
    hosts,         \* table hosts: set of rows [id, hostname, created_at, updated_at]
    entries,       \* table log_entries: set of rows (see EntryRow)
    fileMetadata,  \* table file_metadata: set of rows
    hostSeq,       \* sqlite_sequence of hosts (last AUTOINCREMENT id)
    entrySeq,      \* sqlite_sequence of log_entries
    clock,         \* the system clock read by Date.now() / new Date()
    tz,            \* the machine's local zone: minutes east of UTC
    lastOp,        \* the last call: operation, arguments, outcome, value returned
    tsToken,       \* timestamp normalizer alone: the token
    tsResult,      \* timestamp normalizer alone: what it returned
    fnArg,         \* a parser function alone: the text it is given
    fnRet,         \* a parser function alone: what it returned
    cache,         \* whois.ts: the module's cache object, ip -> organization
    calls          \* whois.ts: the calls of getOrganizationForIP so far

vars == <<hosts, entries, fileMetadata, hostSeq, entrySeq, clock, tz,
          lastOp, tsToken, tsResult, fnArg, fnRet, cache, calls>>

\* the variables of the parser functions alone and of whois.ts
sideVars == <<fnArg, fnRet, cache, calls>>

storeVars == <<hosts, entries, fileMetadata, hostSeq, entrySeq>>

\* JavaScript null / undefined
NULL == [null |-> TRUE]

(***************************************************************************)
(* Bounds of the model.                                                    *)
(***************************************************************************)
MaxRows == 2       \* ids log_entries' AUTOINCREMENT sequence hands out
MaxHostIds == 2    \* ids hosts' AUTOINCREMENT sequence hands out
MaxTicks == 1      \* milliseconds the clock advances during a run
MaxCalls == 3      \* calls of getOrganizationForIP in a run
MaxRequestLen == 7 \* characters of a request field handed to the parser alone

(***************************************************************************)
(* Instants and calendar arithmetic (what Date does).                      *)
(***************************************************************************)
MS_PER_DAY == 24 * 60 * 60 * 1000

Instant(day, ms) == [day |-> day, ms |-> ms]

\* Date.getTime() + ms, for |ms| below TLC's integer range
AddMs(t, ms) ==
    LET total == t.ms + ms
    IN  Instant(t.day + (total \div MS_PER_DAY), total % MS_PER_DAY)

\* a.getTime() >= b.getTime()
\* a faulty variant of InstantGE: strictly later
InstantGEStrict(a, b) == a.day > b.day \/ (a.day = b.day /\ a.ms > b.ms)

InstantGE(a, b) == a.day > b.day \/ (a.day = b.day /\ a.ms >= b.ms)

InstantGT(a, b) == a.day > b.day \/ (a.day = b.day /\ a.ms > b.ms)

\* days since 1970-01-01 of the proleptic Gregorian date y-m-d (m = 1..12);
\* linear in d, so an overflowing day rolls into the next month as Date does
DaysFromCivil(y, m, d) ==
    LET yy  == IF m <= 2 THEN y - 1 ELSE y
        era == yy \div 400
        yoe == yy - era * 400
        mp  == (m + 9) % 12
        doy == (153 * mp + 2) \div 5 + d - 1
        doe == yoe * 365 + yoe \div 4 - yoe \div 100 + doy
    IN  era * 146097 + doe - 719468

\* the UTC calendar date <<y, m, d>> of a day number
CivilFromDays(z0) ==
    LET z   == z0 + 719468
        era == z \div 146097
        doe == z - era * 146097
        yoe == (doe - doe \div 1460 + doe \div 36524 - doe \div 146096) \div 365
        doy == doe - (365 * yoe + yoe \div 4 - yoe \div 100)
        mp  == (5 * doy + 2) \div 153
        d   == doy - (153 * mp + 2) \div 5 + 1
        m   == IF mp < 10 THEN mp + 3 ELSE mp - 9
        y   == yoe + era * 400 + (IF m <= 2 THEN 1 ELSE 0)
    IN  <<y, m, d>>

\* Date.UTC(y, monthIndex, d, h, mi, s)
DateUTC(y, monthIndex, d, h, mi, s) ==
    Instant(DaysFromCivil(y, monthIndex + 1, d), ((h * 60 + mi) * 60 + s) * 1000)

\* new Date(y, monthIndex, d, h, mi, s): the fields read in the machine's
\* local zone, zone minutes east of UTC
NewDateLocal(y, monthIndex, d, h, mi, s, zone) ==
    AddMs(DateUTC(y, monthIndex, d, h, mi, s), -(zone * 60000))

Digits == <<"0", "1", "2", "3", "4", "5", "6", "7", "8", "9">>

Pad2(n) == <<Digits[((n \div 10) % 10) + 1], Digits[(n % 10) + 1]>>

Pad3(n) == <<Digits[((n \div 100) % 10) + 1]>> \o Pad2(n % 100)

Pad4(n) == Pad2(n \div 100) \o Pad2(n % 100)

\* a faulty variant of toISOString: the fields of the machine's local time
toLocalISOString(t) ==
    LET u   == AddMs(t, tz * 60000)
        ymd == CivilFromDays(u.day)
        sec == u.ms \div 1000
    IN  Pad4(ymd[1]) \o <<"-">> \o Pad2(ymd[2]) \o <<"-">> \o Pad2(ymd[3])
        \o <<"T">> \o Pad2(sec \div 3600) \o <<":">> \o Pad2((sec \div 60) % 60)
        \o <<":">> \o Pad2(sec % 60) \o <<".">> \o Pad3(u.ms % 1000) \o <<"Z">>

\* Date.prototype.toISOString(): YYYY-MM-DDTHH:mm:ss.sssZ (years 0..9999)
toISOString(t) ==
    LET ymd == CivilFromDays(t.day)
        sec == t.ms \div 1000
    IN  Pad4(ymd[1]) \o <<"-">> \o Pad2(ymd[2]) \o <<"-">> \o Pad2(ymd[3])
        \o <<"T">> \o Pad2(sec \div 3600) \o <<":">> \o Pad2((sec \div 60) % 60)
        \o <<":">> \o Pad2(sec % 60) \o <<".">> \o Pad3(t.ms % 1000) \o <<"Z">>

\* String.prototype.split(sep)[0]: the text before the first sep
RECURSIVE SplitFirst(_, _)
SplitFirst(s, sep) ==
    IF s = <<>> \/ Head(s) = sep THEN <<>>
    ELSE <<Head(s)>> \o SplitFirst(Tail(s), sep)

(***************************************************************************)
(* Timestamp normalizer (parser.ts, parseNginxTimestamp).                  *)
(* A token is [shape, day, mon, year, hour, minute, second, sign, offH,    *)
(* offM]: shape says whether timestampRegex matches; the numeric fields    *)
(* are the values parseInt gives for the matched digit groups.             *)
(***************************************************************************)
Months ==
    [Jan |-> 0, Feb |-> 1, Mar |-> 2, Apr |-> 3, May |-> 4, Jun |-> 5,
     Jul |-> 6, Aug |-> 7, Sep |-> 8, Oct |-> 9, Nov |-> 10, Dec |-> 11]

offsetMilliseconds(tok) ==
    ((tok.offH * 60 + tok.offM) * 60 * 1000) * (IF tok.sign = "+" THEN -1 ELSE 1)

parseNginxTimestamp(tok, zone) ==
    IF ~tok.shape THEN NULL
    ELSE IF tok.mon \notin DOMAIN Months THEN NULL
    ELSE AddMs(NewDateLocal(tok.year, Months[tok.mon], tok.day,
                            tok.hour, tok.minute, tok.second, zone),
               offsetMilliseconds(tok))

(***************************************************************************)
(* Text helpers (String.prototype.trim, RegExp /.../i .test).              *)
(***************************************************************************)
\* the white space trim() removes, as far as the model's texts hold any
WhiteSpace == {" ", "\t", "\r", "\n"}

RECURSIVE TrimStart(_)
TrimStart(s) ==
    IF s # <<>> /\ Head(s) \in WhiteSpace THEN TrimStart(Tail(s)) ELSE s

RECURSIVE TrimEnd(_)
TrimEnd(s) ==
    IF s # <<>> /\ s[Len(s)] \in WhiteSpace
    THEN TrimEnd(SubSeq(s, 1, Len(s) - 1)) ELSE s

\* a faulty variant of trim: the text is used as it is
trimNone(s) == s

trim(s) == TrimEnd(TrimStart(s))

UpperToLower ==
    [A |-> "a", B |-> "b", C |-> "c", D |-> "d", E |-> "e", F |-> "f",
     G |-> "g", H |-> "h", I |-> "i", J |-> "j", K |-> "k", L |-> "l",
     M |-> "m", N |-> "n", O |-> "o", P |-> "p", Q |-> "q", R |-> "r",
     S |-> "s", T |-> "t", U |-> "u", V |-> "v", W |-> "w", X |-> "x",
     Y |-> "y", Z |-> "z"]

LowerChar(c) == IF c \in DOMAIN UpperToLower THEN UpperToLower[c] ELSE c

\* a faulty variant of ContainsIgnoreCase: the letters are compared as they are
ContainsSameCase(s, p) ==
    \E i \in 1..(Len(s) - Len(p) + 1) :
        \A j \in 1..Len(p) : s[i + j - 1] = p[j]

\* whether the literal pattern p (lower case) occurs in s, letter case ignored
ContainsIgnoreCase(s, p) ==
    \E i \in 1..(Len(s) - Len(p) + 1) :
        \A j \in 1..Len(p) : LowerChar(s[i + j - 1]) = p[j]

(***************************************************************************)
(* Bot classifier (parser.ts, isBot).                                      *)
(***************************************************************************)
botPatterns ==
    <<
       <<"b", "o", "t">>,
       <<"c", "r", "a", "w", "l", "e", "r">>,
       <<"s", "p", "i", "d", "e", "r">>,
       <<"s", "c", "r", "a", "p", "e", "r">>,
       <<"g", "o", "o", "g", "l", "e", "b", "o", "t">>,
       <<"b", "i", "n", "g", "b", "o", "t">>,
       <<"s", "l", "u", "r", "p">>,
       <<"d", "u", "c", "k", "d", "u", "c", "k", "b", "o", "t">>,
       <<"b", "a", "i", "d", "u", "s", "p", "i", "d", "e", "r">>,
       <<"y", "a", "n", "d", "e", "x", "b", "o", "t">>,
       <<"f", "a", "c", "e", "b", "o", "o", "k", "e", "x", "t", "e", "r", "n", "a", "l", "h", "i", "t">>,
       <<"t", "w", "i", "t", "t", "e", "r", "b", "o", "t">>,
       <<"l", "i", "n", "k", "e", "d", "i", "n", "b", "o", "t">>,
       <<"w", "h", "a", "t", "s", "a", "p", "p">>,
       <<"t", "e", "l", "e", "g", "r", "a", "m", "b", "o", "t">>,
       <<"c", "u", "r", "l">>,
       <<"w", "g", "e", "t">>,
       <<"p", "y", "t", "h", "o", "n", "-", "r", "e", "q", "u", "e", "s", "t", "s">>,
       <<"g", "o", "-", "h", "t", "t", "p", "-", "c", "l", "i", "e", "n", "t">>,
       <<"j", "a", "v", "a">>,
       <<"a", "p", "a", "c", "h", "e", "-", "h", "t", "t", "p", "c", "l", "i", "e", "n", "t">>,
       <<"o", "k", "h", "t", "t", "p">>,
       <<"p", "o", "s", "t", "m", "a", "n">>,
       <<"z", "a", "p", "i", "e", "r">>,
       <<"m", "o", "n", "i", "t", "o", "r">>,
       <<"c", "h", "e", "c", "k">>,
       <<"t", "e", "s", "t">>,
       <<"s", "c", "a", "n">>,
       <<"p", "r", "o", "b", "e">>,
       <<"l", "i", "g", "h", "t", "h", "o", "u", "s", "e">>,
       <<"p", "a", "g", "e", "s", "p", "e", "e", "d">>,
       <<"g", "t", "m", "e", "t", "r", "i", "x">>,
       <<"p", "i", "n", "g", "d", "o", "m">>,
       <<"u", "p", "t", "i", "m", "e", "r", "o", "b", "o", "t">>,
       <<"n", "e", "w", "r", "e", "l", "i", "c">>
    >>

isBot(userAgent) ==
    \E k \in 1..Len(botPatterns) : ContainsIgnoreCase(userAgent, botPatterns[k])

(***************************************************************************)
(* Line parser (parser.ts, parseLogLine / parseLogFile).                   *)
(* A line is [raw, groups]: raw is its text up to the end of its first     *)
(* field (all of it for a line of white space only); groups is what        *)
(* NGINX_LOG_REGEX captures, NULL when the regex does not match.           *)
(* groups.statusCodeStr and groups.responseSizeStr are character           *)
(* sequences, groups.timestampStr a timestamp token.                       *)
(***************************************************************************)
\* parseInt's NaN; the numbers parseInt returns are >= 0
NaN == 0 - 1

DigitValue(c) == (CHOOSE i \in 1..10 : Digits[i] = c) - 1

IsDigit(c) == \E i \in 1..10 : Digits[i] = c

\* parseInt(s, 10): the leading decimal digits of s, NaN when there is none
RECURSIVE ParseDigits(_, _)
ParseDigits(s, acc) ==
    IF s = <<>> \/ ~IsDigit(Head(s)) THEN acc
    ELSE ParseDigits(Tail(s), acc * 10 + DigitValue(Head(s)))

parseInt(s) == IF s = <<>> \/ ~IsDigit(Head(s)) THEN NaN ELSE ParseDigits(s, 0)

parseLogLine(line, zone) ==
    IF trim(line.raw) = <<>> THEN NULL
    ELSE IF line.groups = NULL THEN NULL
    ELSE
      LET g            == line.groups
          timestamp    == parseNginxTimestamp(g.timestampStr, zone)
          statusCode   == parseInt(g.statusCodeStr)
          responseSize == IF g.responseSizeStr = <<"-">> THEN 0
                          ELSE parseInt(g.responseSizeStr)
      IN  IF timestamp = NULL THEN NULL
          ELSE IF statusCode = NaN \/ responseSize = NaN THEN NULL
          ELSE [ip           |-> g.ip,
                timestamp    |-> timestamp,
                method       |-> g.method,
                url          |-> g.url,
                protocol     |-> g.protocol,
                statusCode   |-> statusCode,
                responseSize |-> responseSize,
                referrer     |-> IF g.referrer = "-" THEN "" ELSE g.referrer,
                userAgent    |-> g.userAgent,
                forwardedFor |-> g.forwardedFor]

\* a faulty variant of parseLogFile: a line that fails to parse aborts the parse
parseLogFileAbort(lines, zone) ==
    IF \E i \in 1..Len(lines) :
          trim(lines[i].raw) # <<>> /\ parseLogLine(lines[i], zone) = NULL
    THEN <<>>
    ELSE LET good == SelectSeq(lines, LAMBDA l : parseLogLine(l, zone) # NULL)
         IN  [i \in 1..Len(good) |-> parseLogLine(good[i], zone)]

\* content.split('\n') is the sequence of lines handed in
RECURSIVE parseLogFile(_, _)
parseLogFile(lines, zone) ==
    IF lines = <<>> THEN <<>>
    ELSE LET line  == Head(lines)
             rest  == parseLogFile(Tail(lines), zone)
             entry == parseLogLine(line, zone)
         IN  IF trim(line.raw) = <<>> THEN rest
             ELSE IF entry # NULL THEN <<entry>> \o rest
             ELSE rest

UaBrowser == <<"M", "o", "z", "i", "l", "l", "a", "/", "5", ".", "0">>

UaZapier == <<"Z", "a", "p", "i", "e", "r">>

\* the user agents of the model's lines
UserAgents == {UaBrowser, UaZapier}

\* user agent texts handed to isBot alone: a word of UaWords after one of
\* UaHeads and before one of UaTails
UaHeads ==
    { <<>>,
      <<"M", "o", "z", "i", "l", "l", "a", "/", "5", ".", "0", " ", "(", "c", "o", "m", "p", "a", "t", "i", "b", "l", "e", ";", " ">>,
      <<"x">> }

UaWords ==
    { <<>>,
      <<"Z", "a", "p", "i", "e", "r">>,
      <<"Z", "A", "P", "I", "E", "R">>,
      <<"A", "h", "r", "e", "f", "s", "B", "o", "t">>,
      <<"A", "m", "a", "z", "o", "n", "b", "o", "t">>,
      <<"a", "M", "A", "Z", "O", "N", "B", "O", "T">>,
      <<"c", "u", "r", "l">>,
      <<"C", "h", "r", "o", "m", "e">>,
      <<"S", "a", "f", "a", "r", "i">>,
      <<"J", "-", "a", "v", "a">>,
      <<"t", "s", "e", "t">>,
      <<"W", "h", "a", "t", "s", "A", "p", "p">> }

UaTails ==
    { <<>>,
      <<"/", "7", ".", "0", ";", " ", "+", "h", "t", "t", "p", ":", "/", "/", "a", ".", "e", "x", "a", "m", "p", "l", "e", "/", ")">>,
      <<" ">> }

BotInputs == {h \o w \o t : h \in UaHeads, w \in UaWords, t \in UaTails}

\* a faulty variant of IsBotOf: nothing is a bot
IsBotOfNone == [userAgent \in UserAgents |-> FALSE]

\* isBot on each of them, computed once
IsBotOf == [userAgent \in UserAgents |-> isBot(userAgent)]

(***************************************************************************)
(* Store (database.ts, class LogDatabase).                                 *)
(***************************************************************************)
\* the row stmt.run() inserts for one entry. batch and batchSize are not
\* columns: they record the call of insertLogEntries the row comes from (the
\* first id of its batch) and how many entries that call was handed
EntryRow(entry, id, hostId, batch, batchSize) ==
    [id            |-> id,
     host_id       |-> hostId,
     ip            |-> entry.ip,
     timestamp     |-> entry.timestamp,
     method        |-> entry.method,
     url           |-> entry.url,
     protocol      |-> entry.protocol,
     status_code   |-> entry.statusCode,
     response_size |-> entry.responseSize,
     referrer      |-> entry.referrer,
     user_agent    |-> entry.userAgent,
     forwarded_for |-> entry.forwardedFor,
     is_bot        |-> IF IsBotOf[entry.userAgent] THEN 1 ELSE 0,
     date_only     |-> SplitFirst(toISOString(entry.timestamp), "T"),
     batch         |-> batch,
     batchSize     |-> batchSize]

\* a faulty variant of getOrCreateHost: no lookup, a row is inserted every time
getOrCreateHostAlwaysInsert(hostname, now) ==
    [hosts   |-> hosts \cup {[id         |-> hostSeq + 1,
                              hostname   |-> hostname,
                              created_at |-> now,
                              updated_at |-> now]},
     hostSeq |-> hostSeq + 1,
     id      |-> hostSeq + 1]

\* a faulty variant of getOrCreateHost: an existing row is returned untouched
getOrCreateHostNoTouch(hostname, now) ==
    LET existing == {h \in hosts : h.hostname = hostname}
    IN  IF existing # {}
        THEN [hosts   |-> hosts,
              hostSeq |-> hostSeq,
              id      |-> (CHOOSE h \in existing : TRUE).id]
        ELSE [hosts   |-> hosts \cup {[id         |-> hostSeq + 1,
                                       hostname   |-> hostname,
                                       created_at |-> now,
                                       updated_at |-> now]},
              hostSeq |-> hostSeq + 1,
              id      |-> hostSeq + 1]

\* a faulty variant of getOrCreateHost: an existing row is written anew
getOrCreateHostRewrite(hostname, now) ==
    LET existing == {h \in hosts : h.hostname = hostname}
    IN  IF existing # {}
        THEN LET existingHost == CHOOSE h \in existing : TRUE
             IN  [hosts   |-> {IF h.id = existingHost.id
                               THEN [h EXCEPT !.created_at = now,
                                              !.updated_at = now]
                               ELSE h
                               : h \in hosts},
                  hostSeq |-> hostSeq,
                  id      |-> existingHost.id]
        ELSE [hosts   |-> hosts \cup {[id         |-> hostSeq + 1,
                                       hostname   |-> hostname,
                                       created_at |-> now,
                                       updated_at |-> now]},
              hostSeq |-> hostSeq + 1,
              id      |-> hostSeq + 1]

\* getOrCreateHost(hostname) at clock reading now:
\* [hosts, hostSeq] after it and the id it returns
getOrCreateHost(hostname, now) ==
    LET existing == {h \in hosts : h.hostname = hostname}
    IN  IF existing # {}
        THEN LET existingHost == CHOOSE h \in existing : TRUE
             IN  [hosts   |-> {IF h.id = existingHost.id
                               THEN [h EXCEPT !.updated_at = now] ELSE h
                               : h \in hosts},
                  hostSeq |-> hostSeq,
                  id      |-> existingHost.id]
        ELSE [hosts   |-> hosts \cup {[id         |-> hostSeq + 1,
                                       hostname   |-> hostname,
                                       created_at |-> now,
                                       updated_at |-> now]},
              hostSeq |-> hostSeq + 1,
              id      |-> hostSeq + 1]

\* a faulty variant of transaction: no ROLLBACK, what ran before the failure stays
transactionNoRollback(before, after, threw) == after

\* db.transaction(fn)(...): COMMIT what fn did, ROLLBACK when fn threw
transaction(before, after, threw) == IF threw THEN before ELSE after

\* insertLogEntries(list, hostname); failAt = 0: no statement fails,
\* failAt = -1: a statement of getOrCreateHost fails,
\* failAt = k >= 1: stmt.run() of the k-th entry fails.
\* [hosts, hostSeq, entries, entrySeq, threw] after it
insertLogEntries(list, hostname, now, failAt) ==
    IF failAt = -1
    THEN [hosts |-> hosts, hostSeq |-> hostSeq,
          entries |-> entries, entrySeq |-> entrySeq, threw |-> TRUE]
    ELSE
      LET host == getOrCreateHost(hostname, now)
          ran  == IF failAt = 0 THEN Len(list) ELSE failAt - 1
          rows == {EntryRow(list[i], entrySeq + i, host.id, entrySeq + 1, Len(list))
                    : i \in 1..ran}
          done == transaction([entries |-> entries, entrySeq |-> entrySeq],
                              [entries |-> entries \cup rows, entrySeq |-> entrySeq + ran],
                              failAt # 0)
      IN  [hosts |-> host.hosts, hostSeq |-> host.hostSeq,
           entries |-> done.entries, entrySeq |-> done.entrySeq,
           threw |-> failAt # 0]

\* a faulty variant of clearAllData: hosts is emptied first, log_entries last
clearAllDataHostsFirst(failAt) ==
    [hosts        |-> IF failAt = 1 THEN hosts ELSE {},
     fileMetadata |-> IF failAt \in {1, 2} THEN fileMetadata ELSE {},
     entries      |-> IF failAt \in {1, 2, 3} THEN entries ELSE {},
     threw        |-> failAt # 0]

\* clearAllData(): three autocommitted statements; failAt = k >= 1: the k-th
\* fails. [hosts, entries, fileMetadata, threw] after it
clearAllData(failAt) ==
    [entries      |-> IF failAt = 1 THEN entries ELSE {},
     fileMetadata |-> IF failAt \in {1, 2} THEN fileMetadata ELSE {},
     hosts        |-> IF failAt \in {1, 2, 3} THEN hosts ELSE {},
     threw        |-> failAt # 0]

\* a faulty variant of getLogCount: the rows of the first host only
getLogCountOfFirstHost(table) == Cardinality({e \in table : e.host_id = 1})

\* SELECT COUNT(*) FROM log_entries, `table` being the rows of log_entries
getLogCount(table) == Cardinality(table)

\* getAllHosts(): the rows ORDER BY hostname are the rows, as a set
getAllHosts ==
    {[id |-> h.id, hostname |-> h.hostname,
      createdAt |-> h.created_at, updatedAt |-> h.updated_at] : h \in hosts}

(***************************************************************************)
(* Aggregation queries (database.ts, getUserAgentStats .. getTopIPs).      *)
(* A report is the sequence of its rows, in the order the query returns    *)
(* them. `now` is what new Date() gives the query when it starts.          *)
(* `table` is the rows of log_entries the statement reads.                 *)
(***************************************************************************)
\* date-fns subDays(date, amount): the same local wall-clock time `amount`
\* calendar days earlier; the zones of this model keep one offset all year,
\* so each of those days is 24 hours long
subDays(date, amount) == Instant(date.day - amount, date.ms)

\* a faulty variant of RequestsSince: the comparison is turned round
RequestsBefore(group, since) ==
    Cardinality({e \in group : ~InstantGE(e.timestamp, since)})

\* SUM(CASE WHEN timestamp >= ? THEN 1 ELSE 0 END) over the rows of a group
RequestsSince(group, since) ==
    Cardinality({e \in group : InstantGE(e.timestamp, since)})

\* COUNT(DISTINCT CASE WHEN timestamp >= ? THEN ip END)
UniqueIPsSince(group, since) ==
    Cardinality({e.ip : e \in {x \in group : InstantGE(x.timestamp, since)}})

\* a faulty variant of BotRequestsSince: the is_bot = 1 test is left out
BotRequestsSinceAnyFlag(group, since) ==
    Cardinality({e \in group : InstantGE(e.timestamp, since)})

\* SUM(CASE WHEN timestamp >= ? AND is_bot = 1 THEN 1 ELSE 0 END)
BotRequestsSince(group, since) ==
    Cardinality({e \in group : InstantGE(e.timestamp, since) /\ e.is_bot = 1})

\* SUM(CASE WHEN timestamp >= ? AND is_bot = 0 THEN 1 ELSE 0 END)
NonBotRequestsSince(group, since) ==
    Cardinality({e \in group : InstantGE(e.timestamp, since) /\ e.is_bot = 0})

\* SUM(response_size) over a set of rows
RECURSIVE SumResponseSize(_)
SumResponseSize(rows) ==
    IF rows = {} THEN 0
    ELSE LET e == CHOOSE x \in rows : TRUE
         IN  e.response_size + SumResponseSize(rows \ {e})

\* a faulty variant of RoundDiv: the quotient is cut off
RoundDivDown(n, d) == n \div d

\* Math.round(n / d) for n >= 0, d > 0: halves round up
RoundDiv(n, d) == (2 * n + d) \div (2 * d)

\* a faulty variant of OrderByDesc: ascending
RECURSIVE OrderByAsc(_, _)
OrderByAsc(rows, key) ==
    IF rows = {} THEN <<>>
    ELSE LET r == CHOOSE x \in rows : \A y \in rows : key[y] >= key[x]
         IN  <<r>> \o OrderByAsc(rows \ {r}, key)

\* ORDER BY key DESC. SQL leaves the order of rows with equal keys open;
\* the same statement on the same rows gives the same order every time
RECURSIVE OrderByDesc(_, _)
OrderByDesc(rows, key) ==
    IF rows = {} THEN <<>>
    ELSE LET r == CHOOSE x \in rows : \A y \in rows : key[y] <= key[x]
         IN  <<r>> \o OrderByDesc(rows \ {r}, key)

\* LIMIT ?: a negative limit is no limit
Limit(rows, limit) ==
    IF limit < 0 THEN rows
    ELSE SubSeq(rows, 1, IF limit < Len(rows) THEN limit ELSE Len(rows))

\* ORDER BY requests_30d DESC LIMIT ?
TopByRequests30d(rows, limit) ==
    Limit(OrderByDesc(rows, [r \in rows |-> r.requests30d]), limit)

getUserAgentStats(table, limit, now) ==
    LET oneDayAgo     == subDays(now, 1)
        sevenDaysAgo  == subDays(now, 7)
        thirtyDaysAgo == subDays(now, 30)
        keys == {<<e.user_agent, e.is_bot>> : e \in table}
        group(k) == {e \in table : e.user_agent = k[1] /\ e.is_bot = k[2]}
    IN  TopByRequests30d(
          {[userAgent   |-> k[1],
            requests1d  |-> RequestsSince(group(k), oneDayAgo),
            requests7d  |-> RequestsSince(group(k), sevenDaysAgo),
            requests30d |-> RequestsSince(group(k), thirtyDaysAgo),
            isBot       |-> k[2] # 0] : k \in keys}, limit)

getPageStats(table, limit, now) ==
    LET oneDayAgo     == subDays(now, 1)
        sevenDaysAgo  == subDays(now, 7)
        thirtyDaysAgo == subDays(now, 30)
        keys == {e.url : e \in table}
        group(k) == {e \in table : e.url = k}
    IN  TopByRequests30d(
          {[url               |-> k,
            requests1d        |-> RequestsSince(group(k), oneDayAgo),
            requests7d        |-> RequestsSince(group(k), sevenDaysAgo),
            requests30d       |-> RequestsSince(group(k), thirtyDaysAgo),
            uniqueIPs1d       |-> UniqueIPsSince(group(k), oneDayAgo),
            uniqueIPs7d       |-> UniqueIPsSince(group(k), sevenDaysAgo),
            uniqueIPs30d      |-> UniqueIPsSince(group(k), thirtyDaysAgo),
            botRequests1d     |-> BotRequestsSince(group(k), oneDayAgo),
            botRequests7d     |-> BotRequestsSince(group(k), sevenDaysAgo),
            botRequests30d    |-> BotRequestsSince(group(k), thirtyDaysAgo),
            nonBotRequests1d  |-> NonBotRequestsSince(group(k), oneDayAgo),
            nonBotRequests7d  |-> NonBotRequestsSince(group(k), sevenDaysAgo),
            nonBotRequests30d |-> NonBotRequestsSince(group(k), thirtyDaysAgo)]
           : k \in keys}, limit)

getReferrerStats(table, limit, now) ==
    LET oneDayAgo     == subDays(now, 1)
        sevenDaysAgo  == subDays(now, 7)
        thirtyDaysAgo == subDays(now, 30)
        from == {e \in table : e.referrer # "" /\ e.referrer # "-"}
        keys == {e.referrer : e \in from}
        group(k) == {e \in from : e.referrer = k}
    IN  TopByRequests30d(
          {[referrer    |-> k,
            requests1d  |-> RequestsSince(group(k), oneDayAgo),
            requests7d  |-> RequestsSince(group(k), sevenDaysAgo),
            requests30d |-> RequestsSince(group(k), thirtyDaysAgo)]
           : k \in keys}, limit)

getErrorStats(table, limit, now) ==
    LET oneDayAgo     == subDays(now, 1)
        sevenDaysAgo  == subDays(now, 7)
        thirtyDaysAgo == subDays(now, 30)
        from == {e \in table : e.status_code >= 400}
        keys == {<<e.url, e.status_code>> : e \in from}
        group(k) == {e \in from : e.url = k[1] /\ e.status_code = k[2]}
    IN  TopByRequests30d(
          {[url         |-> k[1],
            statusCode  |-> k[2],
            requests1d  |-> RequestsSince(group(k), oneDayAgo),
            requests7d  |-> RequestsSince(group(k), sevenDaysAgo),
            requests30d |-> RequestsSince(group(k), thirtyDaysAgo)]
           : k \in keys}, limit)

\* a 'YYYY-MM-DD' text as the number YYYYMMDD: texts of this shape compare
\* as these numbers do
DateNumber(date) == ParseDigits(SelectSeq(date, IsDigit), 0)

\* a faulty variant of getBandwidthStats: COUNT(*) counts a day once
getBandwidthStatsCountDays(table) ==
    LET keys == {e.date_only : e \in table}
        group(k) == {e \in table : e.date_only = k}
        rows == {[date |-> k,
                  totalBytes |-> SumResponseSize(group(k)),
                  totalRequests |-> 1,
                  averageResponseSize |->
                      RoundDiv(SumResponseSize(group(k)), Cardinality(group(k)))]
                 : k \in keys}
    IN  Limit(OrderByDesc(rows, [r \in rows |-> DateNumber(r.date)]), 30)

\* GROUP BY date_only ORDER BY date_only DESC LIMIT 30; it reads no clock
getBandwidthStats(table) ==
    LET keys == {e.date_only : e \in table}
        group(k) == {e \in table : e.date_only = k}
        rows == {[date |-> k,
                  totalBytes |-> SumResponseSize(group(k)),
                  totalRequests |-> Cardinality(group(k)),
                  averageResponseSize |->
                      RoundDiv(SumResponseSize(group(k)), Cardinality(group(k)))]
                 : k \in keys}
    IN  Limit(OrderByDesc(rows, [r \in rows |-> DateNumber(r.date)]), 30)

\* a faulty variant of getTopIPs: the flag is taken from the entries of the
\* last 30 days only
getTopIPsFlagInWindow(table, limit, now) ==
    LET oneDayAgo     == subDays(now, 1)
        sevenDaysAgo  == subDays(now, 7)
        thirtyDaysAgo == subDays(now, 30)
        keys == {e.ip : e \in table}
        group(k) == {e \in table : e.ip = k}
    IN  TopByRequests30d(
          {[ip          |-> k,
            requests1d  |-> RequestsSince(group(k), oneDayAgo),
            requests7d  |-> RequestsSince(group(k), sevenDaysAgo),
            requests30d |-> RequestsSince(group(k), thirtyDaysAgo),
            isBot       |-> \E e \in group(k) :
                               /\ e.is_bot # 0
                               /\ InstantGE(e.timestamp, thirtyDaysAgo)]
           : k \in keys},
          limit)

\* getTopIPs(limit): GROUP BY ip over the whole table, MAX(is_bot) as the flag
getTopIPs(table, limit, now) ==
    LET oneDayAgo     == subDays(now, 1)
        sevenDaysAgo  == subDays(now, 7)
        thirtyDaysAgo == subDays(now, 30)
        keys == {e.ip : e \in table}
        group(k) == {e \in table : e.ip = k}
    IN  TopByRequests30d(
          {[ip          |-> k,
            requests1d  |-> RequestsSince(group(k), oneDayAgo),
            requests7d  |-> RequestsSince(group(k), sevenDaysAgo),
            requests30d |-> RequestsSince(group(k), thirtyDaysAgo),
            isBot       |-> \E e \in group(k) : e.is_bot # 0] : k \in keys},
          limit)

(***************************************************************************)
(* The inputs of the model: timestamp tokens, lines, files, hostnames.     *)
(***************************************************************************)
Token(d, mon, y, h, mi, s, sign, oh, om) ==
    [shape |-> TRUE, day |-> d, mon |-> mon, year |-> y, hour |-> h,
     minute |-> mi, second |-> s, sign |-> sign, offH |-> oh, offM |-> om]

\* a bracketed field timestampRegex does not match
TokenNoShape == [Token(1, "Jan", 1970, 0, 0, 0, "+", 0, 0) EXCEPT !.shape = FALSE]

TokA == Token(6, "Sep", 2025, 11, 1, 23, "-", 7, 0)

\* local date 6 Sep, UTC date 7 Sep
TokB == Token(6, "Sep", 2025, 23, 30, 0, "-", 7, 0)

TokBadMonth == Token(6, "Foo", 2025, 11, 1, 23, "-", 7, 0)

Groups(ip, tok, url, status, size, referrer, ua, fwd) ==
    [ip |-> ip, timestampStr |-> tok, method |-> "GET", url |-> url,
     protocol |-> "HTTP/1.1", statusCodeStr |-> status, responseSizeStr |-> size,
     referrer |-> referrer, userAgent |-> ua, forwardedFor |-> fwd]

LineA ==
    [raw |-> <<"1", "7", "2">>,
     groups |-> Groups("172.16.6.142", TokA, "/js/script.js", <<"2", "0", "0">>,
                       <<"1", "6", "5", "0">>, "https://example.com/", UaBrowser,
                       <<"205.169.39.128">>)]

LineB ==
    [raw |-> <<"1", "0">>,
     groups |-> Groups("10.0.0.2", TokB, "/missing", <<"4", "0", "4">>,
                       <<"-">>, "-", UaZapier, <<>>)]

LineBadMonth == [LineA EXCEPT !.groups.timestampStr = TokBadMonth]

LineBadShape == [LineA EXCEPT !.groups.timestampStr = TokenNoShape]

LineGarbage == [raw |-> <<"x", "x">>, groups |-> NULL]

LineBlank == [raw |-> <<" ", "\t", "\r">>, groups |-> NULL]

LineEmpty == [raw |-> <<>>, groups |-> NULL]

\* file contents, each the sequence of its lines ('' splits into one empty line)
Contents ==
    { <<LineEmpty>>,
      <<LineBlank, LineEmpty>>,
      <<LineGarbage, LineBadMonth, LineBadShape>>,
      <<LineA, LineEmpty>>,
      <<LineGarbage, LineA, LineBlank, LineB, LineBadMonth>> }

\* lines of access logs that reports are drawn from. At Clock0 on a machine
\* in UTC their instants are: a day ago to the millisecond, 12.5 hours ago,
\* 3 days ago, 20 days ago and 41 days ago
TokDayAgo == Token(6, "Sep", 2025, 12, 0, 0, "+", 0, 0)

\* local date 7 Sep, UTC date 6 Sep
TokHalfDayAgo == Token(7, "Sep", 2025, 0, 30, 0, "+", 1, 0)

TokDaysAgo == Token(4, "Sep", 2025, 5, 0, 0, "-", 7, 0)

TokWeeksAgo == Token(18, "Aug", 2025, 17, 30, 0, "+", 5, 30)

\* local date 29 Jul, UTC date 28 Jul
TokLongAgo == Token(29, "Jul", 2025, 2, 0, 0, "+", 14, 0)

LineDayAgo ==
    [raw |-> <<"1", "0">>,
     groups |-> Groups("10.0.0.1", TokDayAgo, "/", <<"2", "0", "0">>,
                       <<"1", "6", "5", "0">>, "https://example.com/",
                       UaBrowser, <<>>)]

LineHalfDayAgo ==
    [raw |-> <<"1", "0">>,
     groups |-> Groups("10.0.0.1", TokHalfDayAgo, "/", <<"5", "0", "0">>,
                       <<"7">>, "-", UaBrowser, <<>>)]

LineDaysAgo ==
    [raw |-> <<"1", "0">>,
     groups |-> Groups("10.0.0.3", TokDaysAgo, "/", <<"2", "0", "0">>,
                       <<"-">>, "-", UaZapier, <<>>)]

LineWeeksAgo ==
    [raw |-> <<"1", "0">>,
     groups |-> Groups("10.0.0.2", TokWeeksAgo, "/x.php", <<"4", "0", "4">>,
                       <<"1", "0", "0">>, "https://example.com/",
                       UaBrowser, <<>>)]

LineLongAgo ==
    [raw |-> <<"1", "0">>,
     groups |-> Groups("10.0.0.2", TokLongAgo, "/x.php", <<"4", "0", "4">>,
                       <<"1", "0", "0">>, "https://other.example/",
                       UaZapier, <<>>)]

\* a request at noon of the d-th of August 2025, answered with status 200 + d
LineOfAugust(d) ==
    [raw |-> <<"1", "0">>,
     groups |-> Groups("10.0.0.1", Token(d, "Aug", 2025, 12, 0, 0, "+", 0, 0),
                       "/", <<"2">> \o Pad2(d), <<"5">>, "-", UaBrowser, <<>>)]

\* a line stamped a day later than Clock0
TokTomorrow == Token(8, "Sep", 2025, 12, 0, 0, "+", 0, 0)

LineTomorrow ==
    [raw |-> <<"1", "0">>,
     groups |-> Groups("10.0.0.4", TokTomorrow, "/late.php", <<"4", "0", "3">>,
                       <<"5", "0">>, "https://example.com/", UaBrowser, <<>>)]

FileRecent == <<LineDayAgo, LineHalfDayAgo>>

FileMixedAges ==
    <<LineDayAgo, LineDaysAgo, LineWeeksAgo, LineLongAgo, LineHalfDayAgo>>

\* one request on each day of August: more days than getBandwidthStats
\* returns, more status codes than the summary lists
FileAugust == [d \in 1..31 |-> LineOfAugust(d)]

\* a request a day ago to the millisecond and one stamped a day ahead of
\* the clock
FileAhead == <<LineDayAgo, LineTomorrow>>

SampleFiles == {FileRecent, FileMixedAges, FileAugust, FileAhead}

Hostnames == { <<>>, <<" ", " ", " ">>, <<"a">>, <<"b">> }

\* the local zones of the machines the parser may run on (minutes east of UTC)
LocalZones == {0 - 420, 0}

Clock0 == DateUTC(2025, 8, 7, 12, 0, 0)

\* parseLogFile on each file of the model, computed once per local zone
ParsedContents ==
    [zone \in LocalZones |->
        [content \in Contents \cup SampleFiles |-> parseLogFile(content, zone)]]

TsTokens ==
    {TokenNoShape} \cup
    {Token(d, mon, y, hms[1], hms[2], hms[3], off[1], off[2], off[3]) :
        d \in {1, 6, 28}, mon \in {"Jan", "Feb", "Sep", "Dec", "Foo"},
        y \in {2024, 2025},
        hms \in {<<0, 0, 0>>, <<11, 1, 23>>, <<23, 59, 59>>},
        off \in {<<"-", 7, 0>>, <<"+", 0, 0>>, <<"+", 5, 30>>, <<"+", 14, 0>>,
                 <<"-", 12, 0>>}}

(***************************************************************************)
(* Operations (analyzer.ts, class LogAnalyzer).                            *)
(***************************************************************************)
\* result: "ok" or the error thrown; value: what the call returned
Call(op, exists, content, hostname, failAt, result, value) ==
    [op |-> op, exists |-> exists, content |-> content, hostname |-> hostname,
     failAt |-> failAt, result |-> result, value |-> value]

NoCall == Call("none", FALSE, <<>>, <<>>, 0, "ok", NULL)

\* a faulty variant of hasNoEntries: the check is left out
hasNoEntriesNever(list) == FALSE

\* entries.length === 0
hasNoEntries(list) == Len(list) = 0

\* what readFileSync gives when it is never called
NotRead == <<>>

\* the outcome of loadLogFile(filePath, hostname): exists is existsSync
\* (filePath), content the lines readFileSync gives, failAt as in
\* insertLogEntries. read: readFileSync was called; reached:
\* insertLogEntries was called, with count entries. With content = NotRead
\* the outcome tells only whether the call gets as far as readFileSync
loadLogFile(exists, content, hostname, failAt) ==
    LET same(result, read) ==
            [result |-> result, read |-> read, reached |-> FALSE, count |-> 0,
             hosts |-> hosts, hostSeq |-> hostSeq,
             entries |-> entries, entrySeq |-> entrySeq]
    IN  IF ~exists THEN same("Log file not found", FALSE)
        ELSE IF hostname = <<>> \/ trim(hostname) = <<>>
        THEN same("Hostname is required", FALSE)
        ELSE IF content = NotRead THEN same("ok", TRUE)
        ELSE LET list == ParsedContents[tz][content]
             IN  IF hasNoEntries(list) THEN same("No valid log entries", TRUE)
                 ELSE LET ins == insertLogEntries(list, hostname, clock, failAt)
                      IN  [result |-> IF ins.threw THEN "storage error" ELSE "ok",
                           read |-> TRUE, reached |-> TRUE, count |-> Len(list),
                           hosts |-> ins.hosts, hostSeq |-> ins.hostSeq,
                           entries |-> ins.entries, entrySeq |-> ins.entrySeq]

\* a faulty variant of topStatusCodes: the most frequent status code alone
topStatusCodesFirstOnly(table) ==
    LET keys == {e.status_code : e \in table}
        rows == {[code |-> k,
                  count |-> Cardinality({e \in table : e.status_code = k})]
                 : k \in keys}
    IN  Limit(OrderByDesc(rows, [r \in rows |-> r.count]), 1)

\* GROUP BY status_code ORDER BY count DESC LIMIT 10
topStatusCodes(table) ==
    LET keys == {e.status_code : e \in table}
        rows == {[code |-> k,
                  count |-> Cardinality({e \in table : e.status_code = k})]
                 : k \in keys}
    IN  Limit(OrderByDesc(rows, [r \in rows |-> r.count]), 10)

\* the text 'N/A'
NotAvailable == <<"N", "/", "A">>

\* GROUP BY date_only ORDER BY request_count DESC LIMIT 1, or 'N/A'
mostActiveDay(table) ==
    LET keys == {e.date_only : e \in table}
        rows == {[date_only |-> k,
                  request_count |-> Cardinality({e \in table : e.date_only = k})]
                 : k \in keys}
        first == Limit(OrderByDesc(rows, [r \in rows |-> r.request_count]), 1)
    IN  IF first = <<>> THEN NotAvailable ELSE first[1].date_only

\* SUM and AVG of no rows are NULL, which || 0 turns into 0. The quotients
\* are rounded as the exact rationals are
calculateSummary(table) ==
    LET totalRequests == getLogCount(table)
        bot_count == Cardinality({e \in table : e.is_bot = 1})
    IN  [totalRequests        |-> totalRequests,
         totalUniqueIPs       |-> Cardinality({e.ip : e \in table}),
         totalBandwidth       |-> SumResponseSize(table),
         avgResponseSize      |-> IF table = {} THEN 0
                                  ELSE RoundDiv(SumResponseSize(table),
                                                Cardinality(table)),
         botTrafficPercentage |-> IF totalRequests > 0
                                  THEN RoundDiv(bot_count * 100, totalRequests)
                                  ELSE 0,
         mostActiveDay        |-> mostActiveDay(table),
         topStatusCodes       |-> topStatusCodes(table)]

\* analyze({}): every limit at its default
DefaultOptions ==
    [userAgentLimit |-> 50, pageLimit |-> 50, referrerLimit |-> 50,
     errorLimit |-> 50, ipLimit |-> 50]

\* the limits analyze is called with
AnalyzeOptions ==
    { DefaultOptions,
      [DefaultOptions EXCEPT !.userAgentLimit = 1000, !.pageLimit = 1000],
      [userAgentLimit |-> 1, pageLimit |-> 1, referrerLimit |-> 1,
       errorLimit |-> 1, ipLimit |-> 1],
      [userAgentLimit |-> 2, pageLimit |-> 1, referrerLimit |-> 0,
       errorLimit |-> 2, ipLimit |-> 2] }

\* a faulty variant of analyze: every report is cut at userAgentLimit
analyzeOneLimit(table, options, nows) ==
    [userAgents |-> getUserAgentStats(table, options.userAgentLimit, nows[1]),
     pages      |-> getPageStats(table, options.userAgentLimit, nows[2]),
     referrers  |-> getReferrerStats(table, options.userAgentLimit, nows[3]),
     errors     |-> getErrorStats(table, options.userAgentLimit, nows[4]),
     bandwidth  |-> getBandwidthStats(table),
     topIPs     |-> getTopIPs(table, options.userAgentLimit, nows[6]),
     summary    |-> calculateSummary(table)]

\* analyze(options). It issues its queries one after the other; nows[k] is
\* what new Date() gives while the k-th of them runs (the fifth, the
\* bandwidth query, and the summary read no clock)
analyze(table, options, nows) ==
    [userAgents |-> getUserAgentStats(table, options.userAgentLimit, nows[1]),
     pages      |-> getPageStats(table, options.pageLimit, nows[2]),
     referrers  |-> getReferrerStats(table, options.referrerLimit, nows[3]),
     errors     |-> getErrorStats(table, options.errorLimit, nows[4]),
     bandwidth  |-> getBandwidthStats(table),
     topIPs     |-> getTopIPs(table, options.ipLimit, nows[6]),
     summary    |-> calculateSummary(table)]

\* the record of a call of analyze
AnalyzeCall(options, nows, value) ==
    [op |-> "analyze", exists |-> FALSE, content |-> <<>>, hostname |-> <<>>,
     failAt |-> 0, result |-> "ok", value |-> value,
     options |-> options, nows |-> nows]

\* const cache: WhoisCache = {}
EmptyCache == [ip \in {} |-> ""]

Init ==
    /\ hosts = {}
    /\ entries = {}
    /\ fileMetadata = {}
    /\ hostSeq = 0
    /\ entrySeq = 0
    /\ clock = Clock0
    /\ tz \in LocalZones
    /\ lastOp = NoCall
    /\ tsToken = TokenNoShape
    /\ tsResult = NULL
    /\ fnArg = NULL
    /\ fnRet = NULL
    /\ cache = EmptyCache
    /\ calls = <<>>

\* the environment chooses whether the file exists, what readFileSync gives
\* if the call gets to read it, and which statement fails, if any, among
\* those the call gets to run
LoadLogFile ==
    \E exists \in BOOLEAN, hostname \in Hostnames :
      \E content \in (IF loadLogFile(exists, NotRead, hostname, 0).read
                      THEN Contents ELSE {NotRead}) :
        \E dry \in {loadLogFile(exists, content, hostname, 0)} :
          \E failAt \in (IF dry.reached THEN -1..dry.count ELSE {0}) :
            \E r \in {loadLogFile(exists, content, hostname, failAt)} :
              /\ r.reached => entrySeq + r.count <= MaxRows
              /\ r.hostSeq <= MaxHostIds
              /\ hosts' = r.hosts
              /\ hostSeq' = r.hostSeq
              /\ entries' = r.entries
              /\ entrySeq' = r.entrySeq
              /\ lastOp' = Call("load", exists, content, hostname, failAt,
                                r.result, NULL)
              /\ UNCHANGED <<fileMetadata, clock, tz, tsToken, tsResult, sideVars>>

\* analyze(), the clock standing still while it runs
Analyze ==
    /\ lastOp' = AnalyzeCall(DefaultOptions, [k \in 1..6 |-> clock],
                             analyze(entries, DefaultOptions, [k \in 1..6 |-> clock]))
    /\ UNCHANGED <<storeVars, clock, tz, tsToken, tsResult, sideVars>>

ClearData ==
    \E failAt \in 0..3 :
        LET r == clearAllData(failAt)
        IN  /\ entries' = r.entries
            /\ fileMetadata' = r.fileMetadata
            /\ hosts' = r.hosts
            /\ lastOp' = Call("clear", FALSE, <<>>, <<>>, failAt,
                              IF r.threw THEN "storage error" ELSE "ok", NULL)
            /\ UNCHANGED <<hostSeq, entrySeq, clock, tz,
                           tsToken, tsResult, sideVars>>

\* a millisecond passes
Tick ==
    /\ clock.ms < Clock0.ms + MaxTicks
    /\ clock' = AddMs(clock, 1)
    /\ lastOp' = Call("tick", FALSE, <<>>, <<>>, 0, "ok", NULL)
    /\ UNCHANGED <<storeVars, tz, tsToken, tsResult, sideVars>>

Next == LoadLogFile \/ Analyze \/ ClearData \/ Tick

Spec == Init /\ [][Next]_vars

(***************************************************************************)
(* The timestamp normalizer alone, over a range of tokens and local zones. *)
(***************************************************************************)
Pending == [pending |-> TRUE]

TsInit ==
    /\ hosts = {}
    /\ entries = {}
    /\ fileMetadata = {}
    /\ hostSeq = 0
    /\ entrySeq = 0
    /\ clock = Clock0
    /\ tz \in LocalZones
    /\ lastOp = NoCall
    /\ tsToken \in TsTokens
    /\ tsResult = Pending
    /\ fnArg = NULL
    /\ fnRet = NULL
    /\ cache = EmptyCache
    /\ calls = <<>>

NormalizeTimestamp ==
    /\ tsResult = Pending
    /\ tsResult' = parseNginxTimestamp(tsToken, tz)
    /\ UNCHANGED <<storeVars, clock, tz, lastOp, tsToken, sideVars>>

TsNext == NormalizeTimestamp

TsSpec == TsInit /\ [][TsNext]_vars

(***************************************************************************)
(* The classifier alone: isBot is handed one user agent text.              *)
(***************************************************************************)
BotInit ==
    /\ hosts = {}
    /\ entries = {}
    /\ fileMetadata = {}
    /\ hostSeq = 0
    /\ entrySeq = 0
    /\ clock = Clock0
    /\ tz = 0
    /\ lastOp = NoCall
    /\ tsToken = TokenNoShape
    /\ tsResult = Pending
    /\ fnArg \in BotInputs
    /\ fnRet = NULL
    /\ cache = EmptyCache
    /\ calls = <<>>

\* what a call of a parser function returned
Returned(value) == [value |-> value]

IsBotCall ==
    /\ fnRet = NULL
    /\ fnRet' = Returned(isBot(fnArg))
    /\ UNCHANGED <<storeVars, clock, tz, lastOp, tsToken, tsResult, fnArg,
                   cache, calls>>

BotNext == IsBotCall

BotSpec == BotInit /\ [][BotNext]_vars

(***************************************************************************)
(* The line parser alone: parseLogLine is handed a line whose quoted       *)
(* request field is a text of its own; the other fields are LineDayAgo's.  *)
(***************************************************************************)
\* a faulty variant of matchRequest: the url holds no space, "(\S+) (\S+) (\S+)"
matchRequestNoSpaceInUrl(request) ==
    LET n == Len(request)
        splits == {p \in (1..n) \X (1..n) :
                     /\ 1 < p[1] /\ p[1] < p[2] /\ p[2] < n
                     /\ request[p[1]] = " " /\ request[p[2]] = " "
                     /\ \A k \in 1..n :
                            (k # p[1] /\ k # p[2]) => request[k] \notin WhiteSpace}
    IN  IF splits = {} THEN NULL
        ELSE LET p == CHOOSE q \in splits : TRUE
             IN  [method   |-> SubSeq(request, 1, p[1] - 1),
                  url      |-> SubSeq(request, p[1] + 1, p[2] - 1),
                  protocol |-> SubSeq(request, p[2] + 1, n)]

\* NGINX_LOG_REGEX on the request field, "(\S+) ([^"]*) (\S+)": what groups
\* 3, 4 and 5 capture of the text between the quotes, NULL when there is no
\* match. p[1] and p[2] are the places of the two literal spaces; both +
\* and * are greedy, so the match the engine finds first has the longest
\* method and then the longest url
matchRequest(request) ==
    LET n == Len(request)
        splits == {p \in (1..n) \X (1..n) :
                     /\ 1 < p[1] /\ p[1] < p[2] /\ p[2] < n
                     /\ request[p[1]] = " " /\ request[p[2]] = " "
                     /\ \A k \in 1..(p[1] - 1) : request[k] \notin WhiteSpace
                     /\ \A k \in (p[2] + 1)..n : request[k] \notin WhiteSpace}
    IN  IF splits = {} THEN NULL
        ELSE LET p == CHOOSE q \in splits :
                          \A o \in splits :
                              \/ o[1] < q[1]
                              \/ (o[1] = q[1] /\ o[2] <= q[2])
             IN  [method   |-> SubSeq(request, 1, p[1] - 1),
                  url      |-> SubSeq(request, p[1] + 1, p[2] - 1),
                  protocol |-> SubSeq(request, p[2] + 1, n)]

\* the line of LineDayAgo with `request` between the quotes of its request
\* field
LineWithRequest(request) ==
    LET m == matchRequest(request)
    IN  [raw    |-> LineDayAgo.raw,
         groups |-> IF m = NULL THEN NULL
                    ELSE [LineDayAgo.groups EXCEPT !.method = m.method,
                                                   !.url = m.url,
                                                   !.protocol = m.protocol]]

\* the characters of the request fields: of a token, a space, a tab
RequestChars == {"G", "/", " ", "\t"}

RequestFields == UNION {[1..n -> RequestChars] : n \in 0..MaxRequestLen}

LineInit ==
    /\ hosts = {}
    /\ entries = {}
    /\ fileMetadata = {}
    /\ hostSeq = 0
    /\ entrySeq = 0
    /\ clock = Clock0
    /\ tz = 0
    /\ lastOp = NoCall
    /\ tsToken = TokenNoShape
    /\ tsResult = Pending
    /\ fnArg \in RequestFields
    /\ fnRet = NULL
    /\ cache = EmptyCache
    /\ calls = <<>>

ParseLogLineCall ==
    /\ fnRet = NULL
    /\ fnRet' = Returned(parseLogLine(LineWithRequest(fnArg), tz))
    /\ UNCHANGED <<storeVars, clock, tz, lastOp, tsToken, tsResult, fnArg,
                   cache, calls>>

LineNext == ParseLogLineCall

LineSpec == LineInit /\ [][LineNext]_vars

(***************************************************************************)
(* Organization lookups (whois.ts). `cache` is the module's cache object,  *)
(* a function from the IPs it has a property for to the text stored.       *)
(* `calls` holds one record per call of getOrganizationForIP, in the order *)
(* the calls began: ip, pc ("whois" while the call awaits whoisIp, "done"  *)
(* once it has returned), network (whether it called whoisIp), ret (what   *)
(* it returned) and sawCompleted (whether a call for the same ip had       *)
(* already returned when this one began).                                  *)
(***************************************************************************)
WhoisIPs == {"10.0.0.1", "10.0.0.2"}

\* what extractOrganization makes of the data whoisIp resolves with: the
\* organization's name, or '' when the data has none
Organizations == {"ACME", "INITECH", ""}

\* whoisIp(ip) settles: it resolves with data or it rejects
WhoisOutcomes == [rejected : {FALSE}, organization : Organizations]
                     \cup {[rejected |-> TRUE, organization |-> ""]}

\* if (cache[ip]): the property is there and its text is not ''
CacheHit(ip) == ip \in DOMAIN cache /\ cache[ip] # ""

\* cache[ip] = organization
CacheSet(ip, organization) ==
    [x \in DOMAIN cache \cup {ip} |-> IF x = ip THEN organization ELSE cache[x]]

\* getOrganizationForIP up to its first await: the record of the call when
\* it is the next after `before`
BeginLookup(before, ip) ==
    [ip           |-> ip,
     pc           |-> IF CacheHit(ip) THEN "done" ELSE "whois",
     network      |-> ~CacheHit(ip),
     ret          |-> IF CacheHit(ip) THEN cache[ip] ELSE "",
     sawCompleted |-> \E j \in DOMAIN before :
                          before[j].ip = ip /\ before[j].pc = "done"]

RECURSIVE BeginLookups(_, _)
BeginLookups(before, ips) ==
    IF ips = <<>> THEN before
    ELSE BeginLookups(Append(before, BeginLookup(before, Head(ips))), Tail(ips))

WhoisInit ==
    /\ hosts = {}
    /\ entries = {}
    /\ fileMetadata = {}
    /\ hostSeq = 0
    /\ entrySeq = 0
    /\ clock = Clock0
    /\ tz = 0
    /\ lastOp = NoCall
    /\ tsToken = TokenNoShape
    /\ tsResult = Pending
    /\ fnArg = NULL
    /\ fnRet = NULL
    /\ cache = EmptyCache
    /\ calls = <<>>

\* getOrganizationForIP(ip) is called: it returns the cached text or calls
\* whoisIp and awaits it
GetOrganizationForIP ==
    /\ Len(calls) < MaxCalls
    /\ \E ip \in WhoisIPs : calls' = BeginLookups(calls, <<ip>>)
    /\ UNCHANGED <<storeVars, clock, tz, lastOp, tsToken, tsResult, fnArg,
                   fnRet, cache>>

\* getOrganizationsForIPs(ips) is called: ips.map begins a lookup for each
\* ip, one after the other, before any whoisIp settles; what follows the
\* await of Promise.all builds the Map of what the lookups returned
GetOrganizationsForIPs ==
    /\ \E ips \in UNION {[1..n -> WhoisIPs] : n \in 2..MaxCalls} :
         /\ Len(calls) + Len(ips) <= MaxCalls
         /\ calls' = BeginLookups(calls, ips)
    /\ UNCHANGED <<storeVars, clock, tz, lastOp, tsToken, tsResult, fnArg,
                   fnRet, cache>>

\* the whoisIp a call awaits settles and the call runs to its end: it
\* caches and returns the organization, or '' after a rejection
WhoisSettles ==
    \E i \in DOMAIN calls, outcome \in WhoisOutcomes :
        /\ calls[i].pc = "whois"
        /\ cache' = CacheSet(calls[i].ip, outcome.organization)
        /\ calls' = [calls EXCEPT ![i].pc = "done",
                                  ![i].ret = outcome.organization]
        /\ UNCHANGED <<storeVars, clock, tz, lastOp, tsToken, tsResult,
                       fnArg, fnRet>>

WhoisNext == GetOrganizationForIP \/ GetOrganizationsForIPs \/ WhoisSettles

WhoisSpec == WhoisInit /\ [][WhoisNext]_vars

(***************************************************************************)
(* Reports over a loaded store: a fresh database is loaded once from an    *)
(* access log, then analyze runs with limits of the caller's choice while  *)
(* the clock goes on.                                                      *)
(***************************************************************************)
\* the first load of a fresh database, every statement succeeding
LoadSample ==
    /\ entrySeq = 0
    /\ hostSeq = 0
    /\ \E content \in SampleFiles, hostname \in {<<"a">>} :
         \E r \in {loadLogFile(TRUE, content, hostname, 0)} :
           /\ hosts' = r.hosts
           /\ hostSeq' = r.hostSeq
           /\ entries' = r.entries
           /\ entrySeq' = r.entrySeq
           /\ lastOp' = Call("load", TRUE, content, hostname, 0, r.result, NULL)
           /\ UNCHANGED <<fileMetadata, clock, tz, tsToken, tsResult, sideVars>>

\* analyze(options) while time passes: the clock moves on by `ms` before the
\* `at`-th query of the call reads it
AnalyzeWith ==
    \E options \in AnalyzeOptions, ms \in 0..MaxTicks, at \in 1..6 :
        LET nows == [k \in 1..6 |-> IF k < at THEN clock ELSE AddMs(clock, ms)]
        IN  /\ ms = 0 => at = 1
            /\ clock.ms + ms <= Clock0.ms + MaxTicks
            /\ clock' = AddMs(clock, ms)
            /\ lastOp' = AnalyzeCall(options, nows, analyze(entries, options, nows))
            /\ UNCHANGED <<storeVars, tz, tsToken, tsResult, sideVars>>

QueryNext == LoadSample \/ AnalyzeWith \/ Tick

QuerySpec == Init /\ [][QueryNext]_vars

(***************************************************************************)
(* Properties.                                                             *)
(***************************************************************************)
\* a step that is a call of loadLogFile (every action records its call)
LoadStep == lastOp'.op = "load"

\* a text of white space only (the empty text included)
Blank(s) == \A i \in 1..Len(s) : s[i] \in WhiteSpace

\* the number of lines of a file that parseLogLine turns into an entry
NumParsable(content) ==
    Cardinality({i \in 1..Len(content) : parseLogLine(content[i], tz) # NULL})

HostRows(hostname) == {h \in hosts : h.hostname = hostname}

\* C1: in every state, each insertLogEntries batch is in log_entries whole
\* or not at all: the rows present from one batch number what the batch
\* was handed, also after a stmt.run() failed part-way through a batch.
C1_BatchAllOrNothing ==
    \A e \in entries :
        Cardinality({x \in entries : x.batch = e.batch}) = e.batchSize

\* C1 witness: the second stmt.run() of a batch failed, after a row had run
C1_Witness ==
    /\ lastOp.op = "load"
    /\ lastOp.failAt = 2
    /\ lastOp.result = "storage error"

\* C2 (as claimed): when a stmt.run() of the bulk insert fails, loadLogFile
\* throws and leaves log_entries and hosts as they were before the call.
C2_FailedInsertLeavesStoreUnchanged ==
    [][(LoadStep /\ lastOp'.failAt >= 1)
         => /\ lastOp'.result = "storage error"
            /\ entries' = entries
            /\ hosts' = hosts]_vars

\* the signed zone offset of a token, in milliseconds east of UTC
SignedOffsetMs(tok) ==
    (IF tok.sign = "+" THEN 1 ELSE -1) * ((tok.offH * 60 + tok.offM) * 60000)

\* C3 (as claimed): for a token of the timestamp shape with a recognized
\* month the normalizer returns the stated calendar fields, read as UTC,
\* minus the stated signed offset, whatever the machine's local zone;
\* 06/Sep/2025:11:01:23 -0700 gives 2025-09-06T18:01:23.000Z.
C3_NormalizedToUTC ==
    (tsResult # Pending /\ tsToken.shape /\ tsToken.mon \in DOMAIN Months)
      => /\ tsResult = AddMs(DateUTC(tsToken.year, Months[tsToken.mon], tsToken.day,
                                     tsToken.hour, tsToken.minute, tsToken.second),
                             -SignedOffsetMs(tsToken))
         /\ tsToken = TokA
              => toISOString(tsResult) =
                   <<"2", "0", "2", "5", "-", "0", "9", "-", "0", "6", "T",
                     "1", "8", ":", "0", "1", ":", "2", "3", ".", "0", "0", "0", "Z">>

\* C4: loadLogFile of an existing file with an empty or white-space-only
\* hostname throws "Hostname is required" and changes nothing in the store.
C4_BlankHostnameRejected ==
    [][(LoadStep /\ lastOp'.exists /\ Blank(lastOp'.hostname))
         => /\ lastOp'.result = "Hostname is required"
            /\ UNCHANGED storeVars]_vars

\* C4 witness: a white-space-only hostname was refused on a store with data
C4_Witness ==
    /\ lastOp.op = "load"
    /\ lastOp.exists
    /\ lastOp.hostname = <<" ", " ", " ">>
    /\ lastOp.result = "Hostname is required"
    /\ entries # {}

\* C5 (as claimed): loadLogFile with a blank hostname throws "Hostname is
\* required" whether or not the file exists.
C5_BlankHostnameCheckedFirst ==
    [][(LoadStep /\ Blank(lastOp'.hostname))
         => lastOp'.result = "Hostname is required"]_vars

\* C6: when no line of the file parses (an empty file, blank lines only,
\* every line malformed), loadLogFile throws and hosts and log_entries (and
\* their id sequences) are unchanged.
C6_NoValidEntriesRejected ==
    [][(LoadStep /\ lastOp'.content # NotRead /\ NumParsable(lastOp'.content) = 0)
         => /\ lastOp'.result = "No valid log entries"
            /\ UNCHANGED storeVars]_vars

\* C6 witness: a file of malformed lines only was refused, for a hostname
\* that is not tracked, on a store that tracks another
C6_Witness ==
    /\ lastOp.op = "load"
    /\ lastOp.content = <<LineGarbage, LineBadMonth, LineBadShape>>
    /\ lastOp.result = "No valid log entries"
    /\ hosts # {}
    /\ HostRows(lastOp.hostname) = {}

\* C7: a line that fails to parse does not abort a load: a load of a file
\* with a parsable line, with no statement failing, succeeds; a successful
\* load adds exactly as many rows as the file has parsable lines; and
\* analyze() reports as totalRequests the number of rows in log_entries.
C7_LoadCountsParsableLines ==
    [][/\ (LoadStep /\ lastOp'.content # NotRead /\ lastOp'.failAt = 0
             /\ NumParsable(lastOp'.content) >= 1)
           => lastOp'.result = "ok"
       /\ (LoadStep /\ lastOp'.result = "ok")
           => Cardinality(entries') =
                Cardinality(entries) + NumParsable(lastOp'.content)
       /\ lastOp'.op = "analyze"
           => lastOp'.value.summary.totalRequests = Cardinality(entries')]_vars

\* C7 witness: a file with malformed and blank lines around two good ones
\* was loaded, and two rows are stored
C7_Witness ==
    /\ lastOp.op = "load"
    /\ lastOp.result = "ok"
    /\ lastOp.content = <<LineGarbage, LineA, LineBlank, LineB, LineBadMonth>>
    /\ Cardinality(entries) = 2

\* C8: hosts holds at most one row per hostname; a load that got as far as
\* the database leaves exactly one row for its hostname, adding one row to
\* hosts when the hostname was not tracked and none when it was.
C8_OneRowPerHostname ==
    [][/\ \A h1, h2 \in hosts' : h1.hostname = h2.hostname => h1 = h2
       /\ (LoadStep /\ lastOp'.failAt >= 0 /\ lastOp'.result \in {"ok", "storage error"})
           => LET before == Cardinality({h \in hosts : h.hostname = lastOp'.hostname})
                  after  == Cardinality({h \in hosts' : h.hostname = lastOp'.hostname})
              IN  /\ after = 1
                  /\ Cardinality(hosts') = Cardinality(hosts) + (1 - before)]_vars

\* C8 witness: a second load for a tracked hostname has run: two batches
\* are stored and one host
C8_Witness ==
    /\ lastOp.op = "load"
    /\ lastOp.result = "ok"
    /\ Cardinality(hosts) = 1
    /\ Cardinality({e.batch : e \in entries}) = 2

\* a step that is a successful load for a hostname already tracked
ReloadStep == LoadStep /\ lastOp'.result = "ok" /\ HostRows(lastOp'.hostname) # {}

\* C9 (as claimed): a second load for a hostname leaves its updated_at
\* strictly later than the first load left it.
C9_UpdatedAtStrictlyLater ==
    [][ReloadStep
         => \A old \in HostRows(lastOp'.hostname) :
              \A new \in {h \in hosts' : h.hostname = lastOp'.hostname} :
                InstantGT(new.updated_at, old.updated_at)]_vars

\* C9 (amended): a second load for a hostname sets its updated_at to the
\* clock reading of that load: strictly later than before exactly when the
\* clock has advanced since, and the same instant when it has not.
C9_UpdatedAtIsClockReading ==
    [][ReloadStep
         => \A old \in HostRows(lastOp'.hostname) :
              \A new \in {h \in hosts' : h.hostname = lastOp'.hostname} :
                /\ new.updated_at = clock
                /\ InstantGT(new.updated_at, old.updated_at)
                     <=> InstantGT(clock, old.updated_at)]_vars

\* C9 witness: a hostname was loaded again after the clock had advanced
C9_Witness ==
    /\ lastOp.op = "load"
    /\ lastOp.result = "ok"
    /\ \E h \in HostRows(lastOp.hostname) : InstantGT(h.updated_at, h.created_at)

\* C10: in every state every row of log_entries has exactly one row of
\* hosts with its host_id, also after failed loads and after a clear that
\* failed part-way.
C10_NoOrphanEntries ==
    \A e \in entries : Cardinality({h \in hosts : h.id = e.host_id}) = 1

\* C10 witness: a clear failed after emptying log_entries, hosts untouched
C10_Witness ==
    /\ lastOp.op = "clear"
    /\ lastOp.failAt \in {2, 3}
    /\ hosts # {}
    /\ entries = {}


(***************************************************************************)
(* Properties of the stored rows and of the reports (QuerySpec).           *)
(***************************************************************************)
\* the calendar date <<y, m, d>> of an instant in UTC, as the number YYYYMMDD
UTCDateNumber(t) ==
    LET ymd == CivilFromDays(t.day)
    IN  ymd[1] * 10000 + ymd[2] * 100 + ymd[3]

\* the store holds the rows of this file, loaded on a fresh database
LoadedFrom(file) ==
    /\ entries # {}
    /\ \A e \in entries :
         /\ e.id \in 1..Len(file)
         /\ e.batchSize = Len(file)
         /\ e.ip = file[e.id].groups.ip
         /\ e.url = file[e.id].groups.url

\* C11: date_only of every row of log_entries is the ten-character
\* YYYY-MM-DD text of the UTC calendar date of the row's stored timestamp,
\* whatever offset the line carried
C11_DateOnlyIsUTCDate ==
    \A e \in entries :
        /\ Len(e.date_only) = 10
        /\ e.date_only[5] = "-" /\ e.date_only[8] = "-"
        /\ DateNumber(e.date_only) = UTCDateNumber(e.timestamp)

\* C11 witness: the stored rows include one from a line with a positive
\* offset whose date in the log is 7 Sep and whose date_only is 6 Sep, and
\* one from a line with a negative offset
C11_Witness ==
    /\ LoadedFrom(FileMixedAges)
    /\ \E e \in entries :
         /\ FileMixedAges[e.id].groups.timestampStr = TokHalfDayAgo
         /\ DateNumber(e.date_only) = 20250906
    /\ \E e \in entries : FileMixedAges[e.id].groups.timestampStr.sign = "-"


\* the rows of a report
Rows(report) == {report[i] : i \in DOMAIN report}

\* the last call was analyze: lastOp holds its limits, the clock readings of
\* its queries and what it returned
Analyzed == lastOp.op = "analyze"

\* C12: in every row of the page report analyze returns, and in each of the
\* three windows, requests is botRequests plus nonBotRequests
C12_PageRequestsAreBotPlusNonBot ==
    Analyzed =>
        \A r \in Rows(lastOp.value.pages) :
            /\ r.requests1d = r.botRequests1d + r.nonBotRequests1d
            /\ r.requests7d = r.botRequests7d + r.nonBotRequests7d
            /\ r.requests30d = r.botRequests30d + r.nonBotRequests30d

\* C12 witness: analyze returned a page row with bot and non-bot requests
\* in its 30-day window and fewer requests in its 1-day window
C12_Witness ==
    /\ Analyzed
    /\ \E r \in Rows(lastOp.value.pages) :
         /\ r.botRequests30d > 0
         /\ r.nonBotRequests30d > 0
         /\ r.requests1d < r.requests30d
         /\ r.botRequests1d < r.botRequests30d

\* the counts of a row of a windowed report are nested
NestedRequests(r) == r.requests1d <= r.requests7d /\ r.requests7d <= r.requests30d

\* C13: in every row of the user-agent, page, referrer, error and top-IP
\* reports the 1-day count is at most the 7-day count, which is at most the
\* 30-day count; so are the distinct-IP, bot and non-bot counts of a page row
C13_WindowsAreNested ==
    Analyzed =>
        /\ \A r \in Rows(lastOp.value.userAgents) \cup Rows(lastOp.value.pages)
                    \cup Rows(lastOp.value.referrers)
                    \cup Rows(lastOp.value.errors)
                    \cup Rows(lastOp.value.topIPs) : NestedRequests(r)
        /\ \A r \in Rows(lastOp.value.pages) :
            /\ r.uniqueIPs1d <= r.uniqueIPs7d /\ r.uniqueIPs7d <= r.uniqueIPs30d
            /\ r.botRequests1d <= r.botRequests7d
            /\ r.botRequests7d <= r.botRequests30d
            /\ r.nonBotRequests1d <= r.nonBotRequests7d
            /\ r.nonBotRequests7d <= r.nonBotRequests30d

\* C13 witness: analyze returned a row whose 1-day count is below its 7-day
\* count, a row whose 7-day count is below its 30-day count, and a page row
\* with more distinct IPs in 7 days than in 1
C13_Witness ==
    /\ Analyzed
    /\ \E r \in Rows(lastOp.value.pages) :
         /\ 0 < r.requests1d /\ r.requests1d < r.requests7d
         /\ 0 < r.uniqueIPs1d /\ r.uniqueIPs1d < r.uniqueIPs7d
    /\ \E r \in Rows(lastOp.value.userAgents) :
         0 < r.requests7d /\ r.requests7d < r.requests30d
    /\ \E r \in Rows(lastOp.value.errors) : r.requests7d < r.requests30d
    /\ \E r \in Rows(lastOp.value.referrers) : r.requests1d < r.requests30d
    /\ \E r \in Rows(lastOp.value.topIPs) : r.requests1d < r.requests7d


\* the sum of a sequence of numbers
RECURSIVE SumSeq(_)
SumSeq(s) == IF s = <<>> THEN 0 ELSE Head(s) + SumSeq(Tail(s))

\* GROUP BY user_agent, is_bot: the groups of the whole table
UserAgentGroups == {<<e.user_agent, e.is_bot>> : e \in entries}

\* C14 (as claimed): when userAgentLimit is at least the number of
\* (user_agent, is_bot) groups, the requests30d of the rows of the
\* user-agent report analyze returns add up to summary.totalRequests
C14_UserAgentRequestsSumToTotal ==
    (Analyzed /\ lastOp.options.userAgentLimit >= Cardinality(UserAgentGroups)) =>
        SumSeq([i \in DOMAIN lastOp.value.userAgents |->
                    lastOp.value.userAgents[i].requests30d])
            = lastOp.value.summary.totalRequests

\* the sum of totalRequests over the rows of a bandwidth report
BandwidthRequests(report) ==
    SumSeq([i \in DOMAIN report |-> report[i].totalRequests])

\* the dates the store has entries of
StoredDates == {e.date_only : e \in entries}

\* C15 (as claimed): the totalRequests of the rows of the bandwidth report
\* analyze returns add up to summary.totalRequests
C15_BandwidthRequestsSumToTotal ==
    Analyzed =>
        BandwidthRequests(lastOp.value.bandwidth)
            = lastOp.value.summary.totalRequests

\* C15 (amended): the bandwidth report has a row for each of the 30 most
\* recent dates with entries (for every date when there are at most 30), and
\* the totalRequests of its rows add up to the number of entries of those
\* dates: to summary.totalRequests when the store has entries of at most 30
\* dates
C15_BandwidthRequestsSumToTotalOfDatesReturned ==
    Analyzed =>
        LET report == lastOp.value.bandwidth
            dates  == {r.date : r \in Rows(report)}
        IN  /\ Len(report) = Cardinality(dates)
            /\ dates \subseteq StoredDates
            /\ Len(report) = IF Cardinality(StoredDates) < 30
                             THEN Cardinality(StoredDates) ELSE 30
            /\ \A d \in dates, o \in StoredDates \ dates :
                   DateNumber(d) > DateNumber(o)
            /\ BandwidthRequests(report)
                   = Cardinality({e \in entries : e.date_only \in dates})
            /\ Cardinality(StoredDates) <= 30 =>
                   BandwidthRequests(report) = lastOp.value.summary.totalRequests

\* C15 witness: analyze returned a bandwidth report of several dates, one
\* of them with more than one request, that adds up to the total
C15_Witness ==
    /\ Analyzed
    /\ Len(lastOp.value.bandwidth) > 2
    /\ \E r \in Rows(lastOp.value.bandwidth) : r.totalRequests > 1
    /\ BandwidthRequests(lastOp.value.bandwidth)
           = lastOp.value.summary.totalRequests

\* the sum of count over the status codes of a summary
StatusCodeRequests(list) == SumSeq([i \in DOMAIN list |-> list[i].count])

\* the status codes the store has entries of
StoredStatusCodes == {e.status_code : e \in entries}

\* C16 (as claimed): the counts of summary.topStatusCodes add up to
\* summary.totalRequests
C16_StatusCodeCountsSumToTotal ==
    Analyzed =>
        StatusCodeRequests(lastOp.value.summary.topStatusCodes)
            = lastOp.value.summary.totalRequests

\* C16 (amended): summary.topStatusCodes lists ten status codes, or all of
\* them when the store has at most ten, none less frequent than one left
\* out, each with the number of entries of that status; the counts add up to
\* summary.totalRequests when the store has at most ten status codes
C16_StatusCodeCountsSumToTotalOfCodesListed ==
    Analyzed =>
        LET list  == lastOp.value.summary.topStatusCodes
            codes == {r.code : r \in Rows(list)}
            n(c)  == Cardinality({e \in entries : e.status_code = c})
        IN  /\ Len(list) = Cardinality(codes)
            /\ codes \subseteq StoredStatusCodes
            /\ Len(list) = IF Cardinality(StoredStatusCodes) < 10
                           THEN Cardinality(StoredStatusCodes) ELSE 10
            /\ \A r \in Rows(list) : r.count = n(r.code)
            /\ \A c \in codes, o \in StoredStatusCodes \ codes : n(c) >= n(o)
            /\ Cardinality(StoredStatusCodes) <= 10 =>
                   StatusCodeRequests(list) = lastOp.value.summary.totalRequests

\* C16 witness: analyze returned a summary listing several status codes,
\* one of them with more than one request, that add up to the total
C16_Witness ==
    /\ Analyzed
    /\ Len(lastOp.value.summary.topStatusCodes) > 2
    /\ \E r \in Rows(lastOp.value.summary.topStatusCodes) : r.count > 1
    /\ StatusCodeRequests(lastOp.value.summary.topStatusCodes)
           = lastOp.value.summary.totalRequests


(***************************************************************************)
(* Properties of clearData (Spec).                                         *)
(***************************************************************************)
\* what analyze returns when there is nothing to report
EmptyResults ==
    [userAgents |-> <<>>, pages |-> <<>>, referrers |-> <<>>, errors |-> <<>>,
     bandwidth |-> <<>>, topIPs |-> <<>>,
     summary |-> [totalRequests |-> 0, totalUniqueIPs |-> 0,
                  totalBandwidth |-> 0, avgResponseSize |-> 0,
                  botTrafficPercentage |-> 0, mostActiveDay |-> NotAvailable,
                  topStatusCodes |-> <<>>]]

\* what the callers of getAllHosts() and analyze() see is empty
NothingToSee ==
    /\ getAllHosts = {}
    /\ analyze(entries, DefaultOptions, [k \in 1..6 |-> clock]) = EmptyResults

\* a clearData() has completed on a database that had been loaded, and no
\* load has left anything in the store since
ClearedAfterLoad == hostSeq > 0 /\ hosts = {} /\ entries = {}

\* C17 (as claimed): when clearData() completes, getAllHosts() is empty and
\* analyze() returns six empty reports and the all-zero summary with
\* mostActiveDay 'N/A'; and this stays so with every step that is not a
\* successful load
C17_EmptyAfterClearUntilLoaded ==
    [][ /\ (lastOp'.op = "clear" /\ lastOp'.result = "ok") => NothingToSee'
        /\ (ClearedAfterLoad /\ NothingToSee
              /\ ~(LoadStep /\ lastOp'.result = "ok")) => NothingToSee' ]_vars

\* C18 (as claimed): a clearData() either empties log_entries, file_metadata
\* and hosts, all three, or, when a statement of it fails, changes none of
\* them
C18_ClearAllOrNothing ==
    [][ lastOp'.op = "clear" =>
            \/ entries' = {} /\ fileMetadata' = {} /\ hosts' = {}
            \/ entries' = entries /\ fileMetadata' = fileMetadata
                  /\ hosts' = hosts ]_vars


(***************************************************************************)
(* Properties of analyze as a whole (QuerySpec).                           *)
(***************************************************************************)
\* `report` is `full`, a report of `groups` groups with no limit, ranked by
\* requests30d and cut after `limit` rows
RankedCut(report, full, limit, groups) ==
    /\ \A i \in 1..(Len(report) - 1) :
           report[i].requests30d >= report[i + 1].requests30d
    /\ Len(report) = IF limit < groups THEN limit ELSE groups
    /\ Cardinality(Rows(report)) = Len(report)
    /\ Len(full) = groups
    /\ Rows(report) \subseteq Rows(full)
    /\ \A r \in Rows(report), o \in Rows(full) \ Rows(report) :
           o.requests30d <= r.requests30d

\* C19: each of the user-agent, page, referrer, error and top-IP reports
\* analyze returns is in non-increasing order of requests30d, has
\* min(limit, number of groups) rows, each a group of the whole table, and
\* no group left out has a larger requests30d than a group returned
C19_LimitCutsTheRanking ==
    Analyzed =>
        LET o == lastOp.options
            v == lastOp.value
            t == lastOp.nows
        IN  /\ RankedCut(v.userAgents, getUserAgentStats(entries, -1, t[1]),
                         o.userAgentLimit, Cardinality(UserAgentGroups))
            /\ RankedCut(v.pages, getPageStats(entries, -1, t[2]), o.pageLimit,
                         Cardinality({e.url : e \in entries}))
            /\ RankedCut(v.referrers, getReferrerStats(entries, -1, t[3]),
                         o.referrerLimit,
                         Cardinality({e.referrer : e \in entries} \ {"", "-"}))
            /\ RankedCut(v.errors, getErrorStats(entries, -1, t[4]), o.errorLimit,
                         Cardinality({<<e.url, e.status_code>> :
                                        e \in {x \in entries : x.status_code >= 400}}))
            /\ RankedCut(v.topIPs, getTopIPs(entries, -1, t[6]), o.ipLimit,
                         Cardinality({e.ip : e \in entries}))

\* C19 witness: analyze with limits of 1 returned one page of two, one user
\* agent of two and one IP of three, each with more requests in 30 days
\* than a group that was left out
C19_Witness ==
    /\ Analyzed
    /\ lastOp.options.pageLimit = 1 /\ lastOp.options.ipLimit = 1
    /\ Len(lastOp.value.pages) = 1 /\ Len(lastOp.value.topIPs) = 1
    /\ Len(lastOp.value.userAgents) = 1
    /\ Cardinality({e.ip : e \in entries}) = 3
    /\ \E o \in Rows(getPageStats(entries, -1, lastOp.nows[2])) :
           0 < o.requests30d /\ o.requests30d < lastOp.value.pages[1].requests30d
    /\ \E o \in Rows(getUserAgentStats(entries, -1, lastOp.nows[1])) :
           o.requests30d < lastOp.value.userAgents[1].requests30d
    /\ \E o \in Rows(getTopIPs(entries, -1, lastOp.nows[6])) :
           o.requests30d < lastOp.value.topIPs[1].requests30d

\* orders in which analyze might issue its six report queries: order[q] is
\* the place, among the six, at which the q-th query of the code is issued
IssueOrders ==
    { <<1, 2, 3, 4, 5, 6>>, <<6, 5, 4, 3, 2, 1>>, <<2, 3, 4, 5, 6, 1>>,
      <<4, 1, 6, 2, 5, 3>> }

\* what analyze returns when it issues its queries in that order, the k-th
\* query issued reading the clock as the k-th query of the call did
analyzeInOrder(options, nows, order) ==
    [userAgents |-> getUserAgentStats(entries, options.userAgentLimit, nows[order[1]]),
     pages      |-> getPageStats(entries, options.pageLimit, nows[order[2]]),
     referrers  |-> getReferrerStats(entries, options.referrerLimit, nows[order[3]]),
     errors     |-> getErrorStats(entries, options.errorLimit, nows[order[4]]),
     bandwidth  |-> getBandwidthStats(entries),
     topIPs     |-> getTopIPs(entries, options.ipLimit, nows[order[6]]),
     summary    |-> calculateSummary(entries)]

NoEntryLeftAWindow(first, last) ==
    \A e \in entries, n \in {1, 7, 30} :
        InstantGE(e.timestamp, subDays(first, n))
            => InstantGE(e.timestamp, subDays(last, n))

C21_StoredFlagIsClassifierOutput ==
    /\ \A e \in entries : e.is_bot = IF isBot(e.user_agent) THEN 1 ELSE 0
    /\ Analyzed =>
         /\ \A r \in Rows(lastOp.value.userAgents) :
              \E e \in entries :
                  e.user_agent = r.userAgent /\ r.isBot = (e.is_bot = 1)
         /\ lastOp.options.userAgentLimit >= Cardinality(UserAgentGroups) =>
              \A e \in entries :
                  \E r \in Rows(lastOp.value.userAgents) :
                      r.userAgent = e.user_agent /\ r.isBot = (e.is_bot = 1)

\* C21 witness: analyze returned a user-agent report with a bot row and a
\* row that is not a bot, from a store with entries of both kinds
C21_Witness ==
    /\ Analyzed
    /\ \E e \in entries : e.is_bot = 1 /\ e.user_agent = UaZapier
    /\ \E e \in entries : e.is_bot = 0 /\ e.user_agent = UaBrowser
    /\ \E r \in Rows(lastOp.value.userAgents) :
           r.isBot /\ r.userAgent = UaZapier
    /\ \E r \in Rows(lastOp.value.userAgents) :
           ~r.isBot /\ r.userAgent = UaBrowser

(***************************************************************************)
(* C22 (database.ts, getTopIPs).                                           *)
(***************************************************************************)
\* C22: a row of the top-IP report is flagged as a bot exactly when at least
\* one stored entry with that IP, of whatever timestamp, has its bot flag set.
C22_TopIPFlagFromAnyEntry ==
    Analyzed =>
        \A r \in Rows(lastOp.value.topIPs) :
            r.isBot <=> (\E e \in entries : e.ip = r.ip /\ e.is_bot = 1)

\* C22 witness: an IP counted in the 30-day window whose only flagged entry
\* is older than the window is reported as a bot, next to an IP that is not
C22_Witness ==
    /\ Analyzed
    /\ \E r \in Rows(lastOp.value.topIPs) :
           /\ r.isBot
           /\ r.requests30d > 0
           /\ \A e \in entries :
                  (e.ip = r.ip /\ e.is_bot = 1)
                      => ~InstantGE(e.timestamp, subDays(lastOp.nows[6], 30))
    /\ \E r \in Rows(lastOp.value.topIPs) : ~r.isBot

(***************************************************************************)
(* C23 (parser.ts, isBot).                                                 *)
(***************************************************************************)
\* the text with its letters in lower case
LowerCase(s) == [i \in DOMAIN s |-> LowerChar(s[i])]

\* the pieces of s of length n
Pieces(s, n) == {SubSeq(s, i, i + n - 1) : i \in 1..(Len(s) - n + 1)}

\* the word occurs in s letter for letter
Includes(s, word) == word \in Pieces(s, Len(word))

\* a rule matches the text: the rule's word is a piece of the lower-cased text
RuleMatches(k, s) == botPatterns[k] \in Pieces(LowerCase(s), Len(botPatterns[k]))

\* C23: isBot returns true exactly when one of its rules matches the user
\* agent, letter case ignored, and touches nothing else: false for the empty
\* text, true for Zapier and for every text that contains AhrefsBot or
\* Amazonbot.
C23_IsBotIffSomeRuleMatches ==
    fnRet # NULL =>
        /\ fnRet.value \in BOOLEAN
        /\ fnRet.value <=> (\E k \in DOMAIN botPatterns : RuleMatches(k, fnArg))
        /\ fnArg = <<>> => ~fnRet.value
        /\ fnArg = UaZapier => fnRet.value
        /\ Includes(fnArg, <<"A", "h", "r", "e", "f", "s", "B", "o", "t">>)
               => fnRet.value
        /\ Includes(fnArg, <<"A", "m", "a", "z", "o", "n", "b", "o", "t">>)
               => fnRet.value
        /\ entries = {} /\ hosts = {} /\ cache = EmptyCache

\* C23 witness: isBot returned true for a text that matches a rule only when
\* letter case is ignored
C23_Witness ==
    /\ fnRet # NULL
    /\ fnRet.value
    /\ Includes(fnArg, <<"A", "h", "r", "e", "f", "s", "B", "o", "t">>)
    /\ \A k \in DOMAIN botPatterns : ~Includes(fnArg, botPatterns[k])

\* isBot returned false for a text that is not empty
C23_WitnessNotABot ==
    /\ fnRet # NULL
    /\ ~fnRet.value
    /\ fnArg # <<>>

(***************************************************************************)
(* C24 (parser.ts, NGINX_LOG_REGEX / parseLogLine).                        *)
(***************************************************************************)
\* the pieces of s between its spaces, empty pieces included
RECURSIVE SpaceSeparated(_)
SpaceSeparated(s) ==
    LET first == SplitFirst(s, " ")
    IN  IF Len(first) = Len(s) THEN <<s>>
        ELSE <<first>> \o SpaceSeparated(SubSeq(s, Len(first) + 2, Len(s)))

\* the pieces put together again, one space between two of them
RECURSIVE JoinBySpace(_)
JoinBySpace(pieces) ==
    IF Len(pieces) = 0 THEN <<>>
    ELSE IF Len(pieces) = 1 THEN pieces[1]
    ELSE pieces[1] \o <<" ">> \o JoinBySpace(Tail(pieces))

IsToken(piece) == piece # <<>> /\ \A i \in DOMAIN piece : piece[i] \notin WhiteSpace

\* the request field is three or more pieces separated by spaces, the first
\* and the last of them tokens
ThreeOrMoreTokens(request) ==
    LET pieces == SpaceSeparated(request)
    IN  /\ Len(pieces) >= 3
        /\ IsToken(pieces[1])
        /\ IsToken(pieces[Len(pieces)])

\* C24: of a request field of three or more space-separated tokens,
\* parseLogLine returns the first token as method, the last token as
\* protocol and all that lies between the two as url, spaces included.
C24_PathIsAllBetweenFirstAndLastToken ==
    (fnRet # NULL /\ ThreeOrMoreTokens(fnArg)) =>
        LET pieces == SpaceSeparated(fnArg)
            n      == Len(pieces)
        IN  /\ fnRet.value # NULL
            /\ fnRet.value.method = pieces[1]
            /\ fnRet.value.protocol = pieces[n]
            /\ fnRet.value.url = JoinBySpace(SubSeq(pieces, 2, n - 1))
            /\ fnRet.value.method \o <<" ">> \o fnRet.value.url \o <<" ">>
                   \o fnRet.value.protocol = fnArg

\* C24 witness: parseLogLine returned a url with a space inside
C24_Witness ==
    /\ fnRet # NULL
    /\ ThreeOrMoreTokens(fnArg)
    /\ fnRet.value # NULL
    /\ fnRet.value.method = <<"G">>
    /\ fnRet.value.url = <<"/", " ", "/">>
    /\ fnRet.value.protocol = <<"G">>

\* parseLogLine returned null for a request field that begins with a space
C24_WitnessNoMatch ==
    /\ fnRet # NULL
    /\ fnRet.value = NULL
    /\ Len(fnArg) >= 5
    /\ fnArg[1] = " "

(***************************************************************************)
(* C25 (database.ts, getErrorStats; analyzer.ts, calculateSummary).        *)
(***************************************************************************)
\* the sum of requests30d over the rows of an error report with the status
ErrorRequests30d(report, status) ==
    SumSeq([i \in DOMAIN report |->
               IF report[i].statusCode = status THEN report[i].requests30d
               ELSE 0])

\* C25 (as claimed): when analyze runs with the default limits, for every
\* status code from 400 on that summary.topStatusCodes lists, the requests30d
\* of the error-report rows of that status add up to the count the summary
\* gives for it
C25_ErrorRequestsSumToStatusCount ==
    (Analyzed /\ lastOp.options = DefaultOptions) =>
        \A sc \in Rows(lastOp.value.summary.topStatusCodes) :
            sc.code >= 400 =>
                ErrorRequests30d(lastOp.value.errors, sc.code) = sc.count

(***************************************************************************)
(* C26 (database.ts, getBandwidthStats; analyzer.ts, calculateSummary).    *)
(***************************************************************************)
\* the bytes of the stored entries of the dates, added up in the order of
\* their ids
BytesOfDates(dates) ==
    SumSeq([i \in 1..entrySeq |->
               IF \E e \in entries : e.id = i /\ e.date_only \in dates
               THEN (CHOOSE e \in entries : e.id = i).response_size
               ELSE 0])

\* q is the quotient n / d rounded to the nearest integer, a half upwards
IsNearest(q, n, d) == 2 * q * d - d <= 2 * n /\ 2 * n < 2 * q * d + d

\* C26: the bandwidth report analyze returns has one row for each of the 30
\* most recent dates with entries, latest date first; a row's totalBytes and
\* totalRequests are those of the entries of its date and its
\* averageResponseSize is their quotient rounded to the nearest integer; so
\* is summary.avgResponseSize for totalBandwidth and totalRequests when the
\* store has entries.
C26_BandwidthRowsPerDateWithRoundedMean ==
    Analyzed =>
        LET report  == lastOp.value.bandwidth
            summary == lastOp.value.summary
        IN  /\ \A i, j \in DOMAIN report :
                   i < j => DateNumber(report[i].date) > DateNumber(report[j].date)
            /\ \A d \in StoredDates :
                   (\E i \in DOMAIN report : report[i].date = d)
                       <=> Cardinality({o \in StoredDates :
                                           DateNumber(o) > DateNumber(d)}) < 30
            /\ \A r \in Rows(report) :
                   /\ r.date \in StoredDates
                   /\ r.totalRequests
                          = Cardinality({e \in entries : e.date_only = r.date})
                   /\ r.totalBytes = BytesOfDates({r.date})
                   /\ IsNearest(r.averageResponseSize, r.totalBytes, r.totalRequests)
            /\ summary.totalBandwidth = BytesOfDates(StoredDates)
            /\ summary.totalRequests > 0 =>
                   IsNearest(summary.avgResponseSize, summary.totalBandwidth,
                             summary.totalRequests)

\* C26 witness: analyze returned a bandwidth row of two requests of 1657
\* bytes, mean 829 (828.5 rounded), in a report of 30 rows from a store with
\* more dates, or in a shorter one
C26_Witness ==
    /\ Analyzed
    /\ \E r \in Rows(lastOp.value.bandwidth) :
           r.totalRequests = 2 /\ r.totalBytes = 1657 /\ r.averageResponseSize = 829
    /\ lastOp.value.summary.totalRequests > 0

\* analyze returned a bandwidth report of 30 rows from a store with entries
\* of more dates
C26_WitnessThirtyOfMore ==
    /\ Analyzed
    /\ Len(lastOp.value.bandwidth) = 30
    /\ Cardinality(StoredDates) > 30

(***************************************************************************)
(* C27 (whois.ts, getOrganizationForIP / getOrganizationsForIPs).          *)
(***************************************************************************)
\* the calls that have written cache[ip]: those that awaited whoisIp and
\* have returned
CacheWrites(ip) ==
    {i \in DOMAIN calls :
        calls[i].ip = ip /\ calls[i].network /\ calls[i].pc = "done"}

\* C27 (as claimed): a lookup that begins after a lookup of the same IP has
\* completed, with an organization, with none or with a failure, does no
\* network lookup, and the cache entry of an IP is written at most once,
\* whatever lookups run concurrently
C27_CachedOnceNeverLookedUpAgain ==
    /\ \A i \in DOMAIN calls : calls[i].sawCompleted => ~calls[i].network
    /\ \A ip \in WhoisIPs : Cardinality(CacheWrites(ip)) <= 1

(***************************************************************************)
(* C28 (database.ts, getOrCreateHost).                                     *)
(***************************************************************************)
\* C28: a load for a hostname that is already tracked, whatever its result,
\* leaves hosts with the same rows but for the updated_at of the row of that
\* hostname: the row keeps its id, hostname and created_at, and every other
\* row is as it was.
C28_ReloadTouchesOnlyUpdatedAt ==
    [][(LoadStep /\ HostRows(lastOp'.hostname) # {})
         => /\ Cardinality(hosts') = Cardinality(hosts)
            /\ hostSeq' = hostSeq
            /\ \A h \in hosts :
                 IF h.hostname = lastOp'.hostname
                 THEN \E n \in hosts' : n = [h EXCEPT !.updated_at = n.updated_at]
                 ELSE h \in hosts']_vars

\* C28 witness: a hostname was loaded again after the clock had advanced,
\* while another host is tracked: its row has a new updated_at, its old
\* created_at, and the other row is as it was created
C28_Witness ==
    /\ lastOp.op = "load"
    /\ lastOp.result = "ok"
    /\ \E h \in HostRows(lastOp.hostname) :
           /\ InstantGT(h.updated_at, h.created_at)
           /\ h.updated_at = clock
    /\ \E o \in hosts : o.hostname # lastOp.hostname /\ o.updated_at = o.created_at

(***************************************************************************)
(* C29 (database.ts, the aggregation queries; analyzer.ts, analyze).       *)
(***************************************************************************)
\* the ways of binding the stored entries to other hosts
HostBindings == [1..MaxHostIds -> 1..MaxHostIds]

\* the table with every entry bound to the host the binding gives its host
Rebound(table, binding) ==
    {[e EXCEPT !.host_id = binding[e.host_id]] : e \in table}

\* an entry without what ties it to a load: its id, its host, its batch
Content(e) == [e EXCEPT !.id = 0, !.host_id = 0, !.batch = 0, !.batchSize = 0]

\* the fields of a report row that name what the row is about, that count
\* distinct IPs or that are a mean; the others count requests or bytes
SteadyFields ==
    {"userAgent", "isBot", "url", "referrer", "statusCode", "ip", "date",
     "averageResponseSize", "code", "uniqueIPs1d", "uniqueIPs7d",
     "uniqueIPs30d"}

TwiceRow(r) == [f \in DOMAIN r |-> IF f \in SteadyFields THEN r[f] ELSE 2 * r[f]]

\* the rows of `whole` are those of `half` with every count twice as large
TwiceReport(whole, half) ==
    /\ Len(whole) = Len(half)
    /\ Rows(whole) = {TwiceRow(r) : r \in Rows(half)}

\* the stored entries are those of two hosts, with the same contents
SameLinesUnderTwoHosts(a, b) ==
    LET ofA == {e \in entries : e.host_id = a}
        ofB == {e \in entries : e.host_id = b}
    IN  /\ a # b
        /\ ofA # {}
        /\ entries = ofA \cup ofB
        /\ {Content(e) : e \in ofA} = {Content(e) : e \in ofB}
        /\ Cardinality(ofA) = Cardinality(ofB)
        /\ Cardinality({Content(e) : e \in ofA}) = Cardinality(ofA)

\* C29: what analyze returns does not depend on the hosts the entries are
\* bound to: the same entries bound to any other hosts give the same reports
\* and summary at the same clock readings; and when the store holds the
\* same lines under two hostnames, every count is twice what the lines of
\* one hostname give alone.
C29_ReportsIgnoreHosts ==
    Analyzed =>
        /\ \A binding \in HostBindings :
               analyze(Rebound(entries, binding), lastOp.options, lastOp.nows)
                   = lastOp.value
        /\ \A a, b \in 1..MaxHostIds :
               SameLinesUnderTwoHosts(a, b) =>
                   LET whole == lastOp.value
                       half  == analyze({e \in entries : e.host_id = a},
                                        lastOp.options, lastOp.nows)
                   IN  /\ TwiceReport(whole.userAgents, half.userAgents)
                       /\ TwiceReport(whole.pages, half.pages)
                       /\ TwiceReport(whole.referrers, half.referrers)
                       /\ TwiceReport(whole.errors, half.errors)
                       /\ TwiceReport(whole.bandwidth, half.bandwidth)
                       /\ TwiceReport(whole.topIPs, half.topIPs)
                       /\ TwiceReport(whole.summary.topStatusCodes,
                                      half.summary.topStatusCodes)
                       /\ whole.summary.totalRequests = 2 * half.summary.totalRequests
                       /\ whole.summary.totalBandwidth = 2 * half.summary.totalBandwidth
                       /\ whole.summary.totalUniqueIPs = half.summary.totalUniqueIPs
                       /\ whole.summary.avgResponseSize = half.summary.avgResponseSize
                       /\ whole.summary.botTrafficPercentage
                              = half.summary.botTrafficPercentage
                       /\ whole.summary.mostActiveDay = half.summary.mostActiveDay

\* C29 witness: analyze ran on a store that holds the same line under two
\* hostnames and counted it twice
C29_Witness ==
    /\ Analyzed
    /\ \E a, b \in 1..MaxHostIds : SameLinesUnderTwoHosts(a, b)
    /\ Cardinality(hosts) = 2
    /\ lastOp.value.summary.totalRequests = 2
    /\ \E r \in Rows(lastOp.value.userAgents) : r.requests30d = 2

(***************************************************************************)
(* C30 (database.ts, the windows of the windowed queries).                 *)
(***************************************************************************)
\* the instant is earlier than N days before now
BeforeWindow(t, now, days) ==
    \/ t.day < now.day - days
    \/ (t.day = now.day - days /\ t.ms < now.ms)

\* the entries of a group whose timestamp is not before the N-day window
InWindow(group, now, days) ==
    Cardinality({e \in group : ~BeforeWindow(e.timestamp, now, days)})

\* the three counts of the row are those of the group's entries at or after
\* now minus 1, 7 and 30 days
CountsFromBoundOn(r, group, now) ==
    /\ r.requests1d = InWindow(group, now, 1)
    /\ r.requests7d = InWindow(group, now, 7)
    /\ r.requests30d = InWindow(group, now, 30)

\* C30: in every windowed report analyze returns, the N-day count of a row
\* is the number of the row's entries stamped at or after the query's now
\* minus N days, for N = 1, 7 and 30; nothing bounds the windows from above:
\* an entry stamped exactly N days before now is counted and an entry stamped
\* later than now is counted in all three windows.
C30_WindowsHaveALowerBoundOnly ==
    Analyzed =>
        LET v == lastOp.value
            t == lastOp.nows
        IN  /\ \A r \in Rows(v.userAgents) :
                   CountsFromBoundOn(r, {e \in entries :
                                            /\ e.user_agent = r.userAgent
                                            /\ (e.is_bot = 1) = r.isBot}, t[1])
            /\ \A r \in Rows(v.pages) :
                   CountsFromBoundOn(r, {e \in entries : e.url = r.url}, t[2])
            /\ \A r \in Rows(v.referrers) :
                   CountsFromBoundOn(r, {e \in entries : e.referrer = r.referrer}, t[3])
            /\ \A r \in Rows(v.errors) :
                   CountsFromBoundOn(r, {e \in entries :
                                            /\ e.url = r.url
                                            /\ e.status_code = r.statusCode}, t[4])
            /\ \A r \in Rows(v.topIPs) :
                   CountsFromBoundOn(r, {e \in entries : e.ip = r.ip}, t[6])

\* C30 witness: analyze returned a top-IP report that counts, in all three
\* windows, an entry stamped a day later than the query's now, and counts in
\* the 1-day window an entry stamped a day before now to the millisecond
C30_Witness ==
    /\ Analyzed
    /\ \E r \in Rows(lastOp.value.topIPs) :
           /\ r.requests1d = 1 /\ r.requests7d = 1 /\ r.requests30d = 1
           /\ \A e \in entries :
                  e.ip = r.ip => e.timestamp = AddMs(lastOp.nows[6], MS_PER_DAY)
    /\ \E r \in Rows(lastOp.value.topIPs) :
           /\ r.requests1d = 1
           /\ \A e \in entries :
                  e.ip = r.ip => AddMs(e.timestamp, MS_PER_DAY) = lastOp.nows[6]

\* analyze returned a user-agent row whose 1-day count leaves out an entry
\* stamped a millisecond before the window
C30_WitnessJustBefore ==
    /\ Analyzed
    /\ \E r \in Rows(lastOp.value.userAgents) :
           /\ r.requests1d < r.requests7d
           /\ \E e \in entries :
                  /\ e.user_agent = r.userAgent
                  /\ AddMs(e.timestamp, MS_PER_DAY + 1) = lastOp.nows[1]

============================================================================
